---- MODULE Spec2Model ----
(***************************************************************************)
(* A model of the kademlia_raft node: its node-local storage variants      *)
(* (storage.py), the Server's public get/set (network.py) and the protocol *)
(* handlers (protocol.py).                                                 *)
(***************************************************************************)
EXTENDS Integers, Sequences, FiniteSets, TLC

(***************************************************************************)
(* Bounds of the model.                                                    *)
(***************************************************************************)
\* number of distinct storage keys exercised against one storage object
NumKeys == 3
\* last instant of the monotonic clock of the storage model
MaxTime == 3
\* last instant of the clock of an ARCStorage where it advances
ArcMaxTime == 1
\* ttl argument of the ForgetfulStorage instance (ForgetfulStorage(ttl=...))
TTL == 2
\* largest capacity argument of the ARCStorage instance (ARCStorage(capacity=...))
MaxCapacity == 2

\* width of a node ID in bits
IdBits == 3
\* number of nodes of the network
NumNodes == 3
\* number of public Server calls (bootstrap, get, set) made in a run
MaxOps == 2
\* number of RPCs that end by timeout in a run
MaxLost == 1
\* number of calls of save_state_regularly made on a Server
MaxStarts == 2

\* the age from which a refresh cycle republishes an entry (one hour, the
\* unit of the clock of a refresh cycle), and the entries a node holds then
RepublishAge == 1
MaxStored == 2

\* the k of a routing table whose buckets are filled
RouteK == 2

\* iterative lookups: result width k and concurrency alpha of the spider,
\* addresses a peer may be reported at, and contacts in one FIND_* reply
LookupK == 2
LookupAlpha == 2
NumAddrs == 2
MaxList == 2

\* last second of the monotonic clock of a DynamicQuorum
MaxQuorumTime == 20

\* DynamicQuorum: seconds between two adjustments, length of the latency
\* window, number of failures tolerated
QuorumGate == 5
QuorumWindow == 100
QuorumFailures == 3

\* Server(ksize=20, alpha=3)
KSize == 20
Alpha == 3

Keys == 1..NumKeys
\* Python's None
None == "None"
\* values handed to the storage; None is what _move_to_t2 writes
Values == {"v1", "v2"}
\* the default argument of get(key, default)
Defaults == {None, "dflt"}

Max(a, b) == IF a >= b THEN a ELSE b
Min(a, b) == IF a <= b THEN a ELSE b

VARIABLES
    now,        \* time.monotonic() of the storage model
    variant,    \* which IStorage implementation the storage object is
    data,       \* ForgetfulStorage.data: OrderedDict key -> (birthday, value)
    arc,        \* ARCStorage: capacity, p, T1, T2, B1, B2 (OrderedDicts)
    lastSet,    \* history: per key the (time, value) of the last set of a ForgetfulStorage
    router,     \* per node: protocol.router, its RoutingTable
    store,      \* per node: Server.storage, a ForgetfulStorage's data
    calls,      \* the RPCs in flight: request sent, or handled with the reply on its way
    op,         \* the public Server call in progress and where its coroutine stands
    done,       \* the last public Server call that returned or raised, with its outcome
    lost,       \* history: the number of RPCs that ended by timeout
    sets,       \* history: per application key the set calls made for it
    started,    \* history: the number of public Server calls begun
    quorum,     \* a DynamicQuorum and the outcome of the last call of adjust_quorum
    handled,    \* the last request a node's protocol dispatched, with its reply
    lookup,     \* an iterative lookup (spider) and its NodeHeap, round by round
    server,      \* a Server's transport, timer handles and pending timers, with history
    refresh     \* a refresh cycle of a Server: the entries to republish, with history

storageVars == <<now, variant, data, arc, lastSet>>
netVars == <<router, store, calls, op, done, lost, sets, started>>
otherVars == <<quorum, handled, lookup, server, refresh>>
vars == <<storageVars, netVars, otherVars>>

(***************************************************************************)
(* collections.OrderedDict, as the sequence of its items in order; an item *)
(* is [k, t, v]: the key and the (birthday, value) tuple stored under it.  *)
(***************************************************************************)
Has(od, key) == \E i \in DOMAIN od : od[i].k = key
Item(od, key) == od[CHOOSE i \in DOMAIN od : od[i].k = key]
Del(od, key) == SelectSeq(od, LAMBDA e : e.k # key)
\* od[key] = (t, v): an existing key keeps its place, a new one goes last
Put(od, key, t, v) ==
    IF Has(od, key)
    THEN [i \in DOMAIN od |-> IF od[i].k = key THEN [k |-> key, t |-> t, v |-> v] ELSE od[i]]
    ELSE Append(od, [k |-> key, t |-> t, v |-> v])
MoveToEnd(od, key) == Append(Del(od, key), Item(od, key))
KeysOf(od) == {od[i].k : i \in DOMAIN od}
\* the (key, value) pairs of the items, in order
Pairs(od) == [i \in DOMAIN od |-> <<od[i].k, od[i].v>>]

(***************************************************************************)
(* ForgetfulStorage                                                        *)
(***************************************************************************)
\* the items takewhile keeps: the longest prefix with birthday <= min_birthday
RECURSIVE TakeWhileOld(_, _)
TakeWhileOld(od, minBirthday) ==
    IF od = <<>> \/ ~(minBirthday >= Head(od).t) THEN <<>>
    ELSE <<Head(od)>> \o TakeWhileOld(Tail(od), minBirthday)

FS_iter_older_than(d, t, secondsOld) == Pairs(TakeWhileOld(d, t - secondsOld))

\* cull with popitem() in place of popitem(last=False): pops the newest end
FS_cull_newest(d, t) == SubSeq(d, 1, Len(d) - Len(FS_iter_older_than(d, t, TTL)))

\* cull pops one item from the oldest end per pair iter_older_than(ttl) returned
FS_cull(d, t) == SubSeq(d, Len(FS_iter_older_than(d, t, TTL)) + 1, Len(d))

\* __setitem__ without `del self.data[key]`: an overwritten key keeps its place
FS_setitem_inplace(d, key, value, t) == Put(d, key, t, value)

FS_setitem(d, key, value, t) ==
    Put(IF Has(d, key) THEN Del(d, key) ELSE d, key, t, value)

\* self.data[key][1]; a missing key raises KeyError
FS_getitem(d, key) ==
    IF Has(d, key) THEN [raised |-> FALSE, result |-> Item(d, key).v]
    ELSE [raised |-> TRUE, result |-> None]

FS_get(d, key, default) ==
    IF Has(d, key) THEN FS_getitem(d, key)
    ELSE [raised |-> FALSE, result |-> default]

\* __iter__ culls, then zips the keys with the values
FS_iter(d, t) == Pairs(FS_cull(d, t))

(***************************************************************************)
(* ARCStorage.  The state is [capacity, p, T1, T2, B1, B2, err]; err names *)
(* the exception the call being made has raised ("" when none): a raise    *)
(* leaves the mutations made before it in place.                           *)
(***************************************************************************)
NoErr == ""
ARC_init(capacity) ==
    [capacity |-> capacity, p |-> 0,
     T1 |-> <<>>, T2 |-> <<>>, B1 |-> <<>>, B2 |-> <<>>, err |-> NoErr]

ARC_total(s) == Len(s.T1) + Len(s.T2) + Len(s.B1) + Len(s.B2)

\* _replace that reads the oldest item without popping it
ARC_replace_keep(s, key) ==
    IF Len(s.T1) >= 1 /\ (Len(s.T1) > s.p \/ (Has(s.B2, key) /\ Len(s.T1) = s.p))
    THEN LET old == Head(s.T1) IN [s EXCEPT !.B1 = Put(@, old.k, old.t, old.v)]
    ELSE IF s.T2 = <<>> THEN [s EXCEPT !.err = "KeyError"]
         ELSE LET old == Head(s.T2) IN [s EXCEPT !.B2 = Put(@, old.k, old.t, old.v)]

\* _replace: the oldest of T1 goes to B1, or else the oldest of T2 goes to B2;
\* popitem on an empty OrderedDict raises KeyError
ARC_replace(s, key) ==
    IF Len(s.T1) >= 1 /\ (Len(s.T1) > s.p \/ (Has(s.B2, key) /\ Len(s.T1) = s.p))
    THEN LET old == Head(s.T1)
         IN  [s EXCEPT !.T1 = Tail(@), !.B1 = Put(@, old.k, old.t, old.v)]
    ELSE IF s.T2 = <<>> THEN [s EXCEPT !.err = "KeyError"]
         ELSE LET old == Head(s.T2)
              IN  [s EXCEPT !.T2 = Tail(@), !.B2 = Put(@, old.k, old.t, old.v)]

\* _move_to_t2: makes room in T2, then T2[key] = (now, None)
ARC_move_to_t2(s, key, t) ==
    LET s1 == IF Len(s.T2) >= s.capacity - s.p
              THEN IF s.T2 = <<>> THEN [s EXCEPT !.err = "KeyError"]
                   ELSE [s EXCEPT !.T2 = Tail(@)]
              ELSE s
    IN  IF s1.err # NoErr THEN s1
        ELSE [s1 EXCEPT !.T2 = Put(@, key, t, None)]

\* the branch of __setitem__ for a key that is in B1
ARC_set_ghost_b1(s, key, t) ==
    IF Len(s.B1) = 0 THEN [s EXCEPT !.err = "ZeroDivisionError"]
    ELSE LET s1 == [s EXCEPT !.p = Min(s.capacity, s.p + Max(Len(s.B2) \div Len(s.B1), 1))]
             s2 == ARC_move_to_t2(s1, key, t)
         IN  IF s2.err # NoErr THEN s2 ELSE [s2 EXCEPT !.B1 = Del(@, key)]

\* the branch of __setitem__ for a key that is in B2
ARC_set_ghost_b2(s, key, t) ==
    IF Len(s.B2) = 0 THEN [s EXCEPT !.err = "ZeroDivisionError"]
    ELSE LET s1 == [s EXCEPT !.p = Max(0, s.p - Max(Len(s.B1) \div Len(s.B2), 1))]
             s2 == ARC_move_to_t2(s1, key, t)
         IN  IF s2.err # NoErr THEN s2 ELSE [s2 EXCEPT !.B2 = Del(@, key)]

\* the new-key branch without B1.popitem(last=False)
ARC_set_new_keep_b1(s, key, value, t) ==
    LET s1 == IF Len(s.T1) + Len(s.B1) = s.capacity
              THEN IF Len(s.T1) < s.capacity
                   THEN ARC_replace(s, key)
                   ELSE s
              ELSE IF Len(s.T1) + Len(s.B1) < s.capacity
                      /\ ARC_total(s) >= s.capacity
                      /\ ARC_total(s) = 2 * s.capacity
                   THEN IF s.B2 = <<>> THEN [s EXCEPT !.err = "KeyError"]
                        ELSE [s EXCEPT !.B2 = Tail(@)]
                   ELSE s
    IN  IF s1.err # NoErr THEN s1
        ELSE [s1 EXCEPT !.T1 = Put(@, key, t, value)]

\* the new-key branch without B2.popitem(last=False)
ARC_set_new_keep_b2(s, key, value, t) ==
    LET s1 == IF Len(s.T1) + Len(s.B1) = s.capacity
              THEN IF Len(s.T1) < s.capacity
                   THEN IF s.B1 = <<>> THEN [s EXCEPT !.err = "KeyError"]
                        ELSE ARC_replace([s EXCEPT !.B1 = Tail(@)], key)
                   ELSE s
              ELSE s
    IN  IF s1.err # NoErr THEN s1
        ELSE [s1 EXCEPT !.T1 = Put(@, key, t, value)]

\* the branch of __setitem__ for a key that is in none of the four lists
ARC_set_new(s, key, value, t) ==
    LET s1 == IF Len(s.T1) + Len(s.B1) = s.capacity
              THEN IF Len(s.T1) < s.capacity
                   THEN IF s.B1 = <<>> THEN [s EXCEPT !.err = "KeyError"]
                        ELSE ARC_replace([s EXCEPT !.B1 = Tail(@)], key)
                   ELSE s
              ELSE IF Len(s.T1) + Len(s.B1) < s.capacity
                      /\ ARC_total(s) >= s.capacity
                      /\ ARC_total(s) = 2 * s.capacity
                   THEN IF s.B2 = <<>> THEN [s EXCEPT !.err = "KeyError"]
                        ELSE [s EXCEPT !.B2 = Tail(@)]
                   ELSE s
    IN  IF s1.err # NoErr THEN s1
        ELSE [s1 EXCEPT !.T1 = Put(@, key, t, value)]

ARC_setitem(s0, key, value, t) ==
    LET s == [s0 EXCEPT !.err = NoErr]
    IN  IF Has(s.T1, key) \/ Has(s.T2, key)
        THEN IF Has(s.T1, key)
             THEN [s EXCEPT !.T1 = Del(@, key), !.T2 = Put(@, key, t, value)]
             ELSE [s EXCEPT !.T2 = Put(MoveToEnd(@, key), key, t, value)]
        ELSE LET s1 == IF Len(s.T1) + Len(s.T2) >= s.capacity
                       THEN ARC_replace(s, key) ELSE s
             IN  IF s1.err # NoErr THEN s1
                 ELSE IF Has(s1.B1, key) THEN ARC_set_ghost_b1(s1, key, t)
                 ELSE IF Has(s1.B2, key) THEN ARC_set_ghost_b2(s1, key, t)
                 ELSE ARC_set_new(s1, key, value, t)

\* __getitem__: [state, raised, result]; a key of T1 is promoted to T2, a key
\* of T2 is moved to its end, any other key raises KeyError
ARC_getitem(s0, key) ==
    LET s == [s0 EXCEPT !.err = NoErr]
    IN  IF Has(s.T1, key)
        THEN LET e == Item(s.T1, key)
             IN  [state |-> [s EXCEPT !.T1 = Del(@, key), !.T2 = Put(@, key, e.t, e.v)],
                  raised |-> FALSE, result |-> e.v]
        ELSE IF Has(s.T2, key)
        THEN [state |-> [s EXCEPT !.T2 = MoveToEnd(@, key)],
              raised |-> FALSE, result |-> Item(s.T2, key).v]
        ELSE [state |-> [s EXCEPT !.err = "KeyError"], raised |-> TRUE, result |-> None]

\* get without the try/except around __getitem__
ARC_get_uncaught(s, key, default) == ARC_getitem(s, key)

\* get: __getitem__ with KeyError caught
ARC_get(s, key, default) ==
    LET r == ARC_getitem(s, key)
    IN  IF r.raised
        THEN [state |-> [r.state EXCEPT !.err = NoErr], raised |-> FALSE, result |-> default]
        ELSE r

\* the items() of an OrderedDict: (key, (birthday, value)), written here as the
\* triple <<key, birthday, value>>
Items(od) == [i \in DOMAIN od |-> <<od[i].k, od[i].t, od[i].v>>]

\* __iter__: the items of T1, then the items of T2
ARC_iter(s) == Items(s.T1) \o Items(s.T2)

\* iter_older_than: the items of T1, then of T2, with timestamp <= min_birthday
ARC_iter_older_than(s, t, secondsOld) ==
    Pairs(SelectSeq(s.T1, LAMBDA e : e.t <= t - secondsOld))
    \o Pairs(SelectSeq(s.T2, LAMBDA e : e.t <= t - secondsOld))

(***************************************************************************)
(* Node identity and metric (node.py).  IDs are IdBits wide here.          *)
(***************************************************************************)
IdSpace == 0..(2^IdBits - 1)

\* long_id ^ long_id
RECURSIVE Xor(_, _)
Xor(a, b) ==
    IF a = 0 THEN b
    ELSE IF b = 0 THEN a
    ELSE 2 * Xor(a \div 2, b \div 2) + (((a % 2) + (b % 2)) % 2)

\* Node.distance_to
Distance(a, b) == Xor(a, b)

\* the IDs of the nodes of the network; a contact is known by its ID, and its
\* (ip, port) is one to one with it
NodeIdOf(i) == ((5 * i) + 4) % (2^IdBits)
Nodes == {NodeIdOf(i) : i \in 1..NumNodes}

\* the application keys of get and set
AppKeys == {"ka"}

\* utils.digest (SHA-1) of an application key: a fixed map to IDs
Digest(x) == IF x = "ka" THEN 3 % (2^IdBits) ELSE 5 % (2^IdBits)

\* utils.digest of a 20-byte key: welcome_if_new digests the stored key once more
DigestBytes(x) == ((3 * x) + 1) % (2^IdBits)

\* the elements of the set S of IDs as a sequence, nearest to target first
RECURSIVE SortByDistance(_, _)
SortByDistance(S, target) ==
    IF S = {} THEN <<>>
    ELSE LET m == CHOOSE x \in S : \A y \in S : Distance(x, target) <= Distance(y, target)
         IN  <<m>> \o SortByDistance(S \ {m}, target)

FirstN(seq, n) == SubSeq(seq, 1, Min(n, Len(seq)))
Range(seq) == {seq[i] : i \in DOMAIN seq}

(***************************************************************************)
(* RoutingTable: a sequence of k-buckets [lo, hi, live, replacement], the  *)
(* lists ordered least recently seen first.                                *)
(***************************************************************************)
\* KBucket.__init__ whose range stops one ID short
KBucket_init_short(lo, hi) == [lo |-> lo, hi |-> hi - 1, live |-> <<>>, replacement |-> <<>>]

\* KBucket.__init__(rangeLower, rangeUpper, ksize): the range, no nodes, no
\* replacement nodes
KBucket_init(lo, hi) == [lo |-> lo, hi |-> hi, live |-> <<>>, replacement |-> <<>>]

\* a KBucket that keeps no replacement nodes
KBucket_max_replacement_none(k) == 0

\* KBucket.max_replacement_nodes = ksize * replacementNodeFactor
KBucket_max_replacement_nodes(k) == k * 5

RT_init == << KBucket_init(0, 2^IdBits) >>

RT_bucket_of(rt, id) == CHOOSE i \in DOMAIN rt : rt[i].lo <= id /\ id < rt[i].hi

RT_contacts(rt) == UNION {Range(rt[i].live) : i \in DOMAIN rt}

RT_is_new_node(rt, c) == c \notin RT_contacts(rt)

\* up to k live contacts nearest to target, nearest first, without the excluded one
RT_find_neighbors(rt, target, k, exclude) ==
    FirstN(SortByDistance(RT_contacts(rt) \ exclude, target), k)

\* the number of leading bits the IDs of a bucket's range share with the home ID
RECURSIVE SharedPrefix(_, _, _)
SharedPrefix(a, b, bits) ==
    IF bits = 0 \/ (a \div 2^(bits - 1)) # (b \div 2^(bits - 1)) THEN 0
    ELSE 1 + SharedPrefix(a % 2^(bits - 1), b % 2^(bits - 1), bits - 1)

RT_depth(b, home) == Min(SharedPrefix(b.lo, home, IdBits), SharedPrefix(b.hi - 1, home, IdBits))

WithoutId(seq, c) == SelectSeq(seq, LAMBDA x : x # c)

\* the two halves of bucket i, its contacts redistributed
RT_split(rt, i) ==
    LET b == rt[i]
        mid == (b.lo + b.hi) \div 2
        lower == [KBucket_init(b.lo, mid) EXCEPT
                  !.live = SelectSeq(b.live, LAMBDA x : x < mid),
                  !.replacement = SelectSeq(b.replacement, LAMBDA x : x < mid)]
        upper == [KBucket_init(mid, b.hi) EXCEPT
                  !.live = SelectSeq(b.live, LAMBDA x : x >= mid),
                  !.replacement = SelectSeq(b.replacement, LAMBDA x : x >= mid)]
    IN  SubSeq(rt, 1, i - 1) \o <<lower, upper>> \o SubSeq(rt, i + 1, Len(rt))

RECURSIVE RT_add_contact(_, _, _, _)
RT_add_contact(rt, home, k, c) ==
    LET i == RT_bucket_of(rt, c)
        b == rt[i]
    IN  IF c \in Range(b.live)
        THEN [rt EXCEPT ![i].live = Append(WithoutId(@, c), c)]
        ELSE IF Len(b.live) < k
        THEN [rt EXCEPT ![i].live = Append(@, c)]
        ELSE IF b.hi - b.lo >= 2 /\ ((b.lo <= home /\ home < b.hi) \/ RT_depth(b, home) % 5 # 0)
        THEN RT_add_contact(RT_split(rt, i), home, k, c)
        ELSE LET queued == Append(WithoutId(b.replacement, c), c)
             IN  [rt EXCEPT ![i].replacement =
                     IF Len(queued) > KBucket_max_replacement_nodes(k)
                     THEN Tail(queued) ELSE queued]

\* drops c from its bucket's live list and promotes the newest replacement
RT_remove_contact(rt, c) ==
    LET i == RT_bucket_of(rt, c)
        b == rt[i]
    IN  IF c \notin Range(b.live) THEN rt
        ELSE IF b.replacement = <<>>
        THEN [rt EXCEPT ![i].live = WithoutId(@, c)]
        ELSE [rt EXCEPT ![i].live = Append(WithoutId(@, c), b.replacement[Len(b.replacement)]),
                        ![i].replacement = SubSeq(@, 1, Len(@) - 1)]

(***************************************************************************)
(* NodeHeap (node.py): [node, heap, maxsize, contacted].  The heap holds   *)
(* one (distance, contact) pair per ID; it is kept here as the set of its  *)
(* IDs, and read in the order heapq yields them, nearest first.            *)
(***************************************************************************)
NH_init(target, maxsize) ==
    [node |-> target, heap |-> {}, maxsize |-> maxsize, contacted |-> {}]

\* __contains__
NH_contains(h, id) == id \in h.heap

\* push: the contacts of the list whose ID is not in the heap yet
NH_push(h, nodes) == [h EXCEPT !.heap = @ \cup Range(nodes)]

\* remove: rebuilds the heap without the peers
NH_remove(h, peers) == IF peers = {} THEN h ELSE [h EXCEPT !.heap = @ \ peers]

NH_mark_contacted(h, id) == [h EXCEPT !.contacted = @ \cup {id}]

\* __iter__: heapq.nsmallest(maxsize, heap)
NH_iter(h) == FirstN(SortByDistance(h.heap, h.node), h.maxsize)

NH_get_not_contacted(h) == SelectSeq(NH_iter(h), LAMBDA id : id \notin h.contacted)

NH_have_contacted_all(h) == Len(NH_get_not_contacted(h)) = 0

(***************************************************************************)
(* RPC layer: a call resolves to the tuple (True, payload) on a reply and  *)
(* to (False, None) on the deadline.  A payload is [tag, id, nodes, value].*)
(***************************************************************************)
Payload(tag, id, nodes, value) == [tag |-> tag, id |-> id, nodes |-> nodes, value |-> value]
NoPayload == Payload("none", 0, <<>>, None)
RpcTimeout == <<FALSE, NoPayload>>
RpcReply(payload) == <<TRUE, payload>>

\* Python's truth value of the tuple a call resolves to: a non-empty tuple is true
PyTruthy(result) == Len(result) > 0

(***************************************************************************)
(* KademliaProtocol (protocol.py).  A node's state is its routing table rt *)
(* and its storage d; the operators return the new state, the STORE calls  *)
(* started with ensure_future as (key, value) pairs, and the reply.        *)
(***************************************************************************)
\* the test of welcome_if_new for one stored key
WelcomeShouldStore(rt, home, c, key) ==
    LET keynode == DigestBytes(key)
        neighbors == RT_find_neighbors(rt, keynode, KSize, {})
    IN  \/ neighbors = <<>>
        \/ /\ Distance(c, keynode) < Distance(neighbors[Len(neighbors)], keynode)
           /\ Distance(home, keynode) < Distance(neighbors[1], keynode)

welcome_if_new(rt, d, home, c, t) ==
    IF ~RT_is_new_node(rt, c) THEN [rt |-> rt, d |-> d, stores |-> {}]
    ELSE LET items == FS_iter(d, t)
         IN  [rt |-> RT_add_contact(rt, home, KSize, c),
              d |-> FS_cull(d, t),
              stores |-> {items[i] : i \in {j \in DOMAIN items :
                                             WelcomeShouldStore(rt, home, c, items[j][1])}}]

\* rpc_stun(sender): the reply is the address of the sender; the request carries
\* no node ID and the handler does not call welcome_if_new
rpc_stun(rt, d, home, sender, t) ==
    [rt |-> rt, d |-> d, stores |-> {}, reply |-> Payload("address", sender, <<>>, None)]

\* rpc_ping without its call of welcome_if_new
rpc_ping_unwelcoming(rt, d, home, sender, t) ==
    [rt |-> rt, d |-> d, stores |-> {}, reply |-> Payload("id", home, <<>>, None)]

rpc_ping(rt, d, home, sender, t) ==
    LET w == welcome_if_new(rt, d, home, sender, t)
    IN  [rt |-> w.rt, d |-> w.d, stores |-> w.stores,
         reply |-> Payload("id", home, <<>>, None)]

rpc_store_drop(rt, d, home, sender, key, value, t) ==
    LET w == welcome_if_new(rt, d, home, sender, t)
    IN  [rt |-> w.rt, d |-> w.d, stores |-> w.stores,
         reply |-> Payload("bool", 0, <<>>, None)]

rpc_store(rt, d, home, sender, key, value, t) ==
    LET w == welcome_if_new(rt, d, home, sender, t)
    IN  [rt |-> w.rt, d |-> FS_setitem(w.d, key, value, t), stores |-> w.stores,
         reply |-> Payload("bool", 0, <<>>, None)]

rpc_find_node(rt, d, home, sender, key, t) ==
    LET w == welcome_if_new(rt, d, home, sender, t)
    IN  [rt |-> w.rt, d |-> w.d, stores |-> w.stores,
         reply |-> Payload("nodes", 0, RT_find_neighbors(w.rt, key, KSize, {sender}), None)]

rpc_find_value(rt, d, home, sender, key, t) ==
    LET w == welcome_if_new(rt, d, home, sender, t)
        value == FS_get(w.d, key, None).result
    IN  IF value = None
        THEN LET f == rpc_find_node(w.rt, w.d, home, sender, key, t)
             IN  [f EXCEPT !.stores = w.stores \cup f.stores]
        ELSE [rt |-> w.rt, d |-> w.d, stores |-> w.stores,
              reply |-> Payload("value", 0, <<>>, value)]

\* handle_call_response that leaves the contact of a failed call in the table
handle_call_response_keep(rt, d, home, result, c, t) ==
    IF ~result[1] THEN [rt |-> rt, d |-> d, stores |-> {}]
    ELSE welcome_if_new(rt, d, home, c, t)

\* handle_call_response: what the caller does with the result of a call to node c
handle_call_response(rt, d, home, result, c, t) ==
    IF ~result[1] THEN [rt |-> RT_remove_contact(rt, c), d |-> d, stores |-> {}]
    ELSE welcome_if_new(rt, d, home, c, t)

(***************************************************************************)
(* Server (network.py)                                                     *)
(***************************************************************************)
\* the Python type of a value handed to set
TypeOf(value) ==
    CASE value \in {"v1", "v2"} -> "str"
      [] value = None -> "NoneType"
      [] OTHER -> "list"

check_dht_value_type_any(value) == TRUE

check_dht_value_type(value) == TypeOf(value) \in {"int", "float", "bool", "str", "bytes"}

NoKnownNeighbors_never(nearest) == FALSE

\* `if not nearest` of get and set_digest
NoKnownNeighbors(nearest) == nearest = <<>>

\* the value set_digest returns: any() of the gathered call_store results
AnyStored(results) == \E i \in DOMAIN results : PyTruthy(results[i])

\* the same test against the nearest of the nodes found
StoresLocally_nearest(home, dkey, nodes) ==
    LET smallest == CHOOSE m \in {Distance(nodes[i], dkey) : i \in DOMAIN nodes} :
                        \A i \in DOMAIN nodes : Distance(nodes[i], dkey) >= m
    IN  Distance(home, dkey) < smallest

\* whether set_digest also stores locally, and the ValueError of max([])
StoresLocally(home, dkey, nodes) ==
    LET biggest == CHOOSE m \in {Distance(nodes[i], dkey) : i \in DOMAIN nodes} :
                       \A i \in DOMAIN nodes : Distance(nodes[i], dkey) <= m
    IN  Distance(home, dkey) < biggest

(***************************************************************************)
(* The storage object under a client that sets, gets and iterates it while *)
(* the clock advances.  The calls that change nothing (ForgetfulStorage    *)
(* get and iter_older_than, ARCStorage iteration) are the operators above, *)
(* applied to the state.                                                   *)
(***************************************************************************)
Never == [t |-> -1, v |-> None]

StorageInit ==
    /\ now = 0
    /\ variant \in {"Forgetful", "ARC"}
    /\ data = <<>>
    /\ \E c \in 1..MaxCapacity : arc = ARC_init(IF variant = "ARC" THEN c ELSE 1)
    /\ lastSet = [k \in Keys |-> Never]
    /\ router = <<>> /\ store = <<>> /\ calls = {} /\ op = <<>> /\ done = <<>>
    /\ lost = 0 /\ sets = <<>> /\ started = 0
    /\ quorum = <<>> /\ handled = <<>>
    /\ lookup = <<>>
    /\ server = <<>>
    /\ refresh = <<>>

\* ForgetfulStorage: storage[key] = value
FSSet(key, value) ==
    /\ variant = "Forgetful"
    /\ data' = FS_setitem(data, key, value, now)
    /\ lastSet' = [lastSet EXCEPT ![key] = [t |-> now, v |-> value]]
    /\ UNCHANGED <<now, variant, arc>>
    /\ UNCHANGED <<netVars, otherVars>>

\* ForgetfulStorage: list(storage), which culls
FSIter ==
    /\ variant = "Forgetful"
    /\ data' = FS_cull(data, now)
    /\ UNCHANGED <<now, variant, arc, lastSet>>
    /\ UNCHANGED <<netVars, otherVars>>

\* ARCStorage: storage[key] = value; a raise keeps the mutations made so far
ARCSet(key, value) ==
    /\ variant = "ARC"
    /\ arc' = [ARC_setitem(arc, key, value, now) EXCEPT !.err = NoErr]
    /\ UNCHANGED <<now, variant, data, lastSet>>
    /\ UNCHANGED <<netVars, otherVars>>

\* ARCStorage: storage.get(key, default)
ARCGet(key, default) ==
    /\ variant = "ARC"
    /\ arc' = ARC_get(arc, key, default).state
    /\ UNCHANGED <<now, variant, data, lastSet>>
    /\ UNCHANGED <<netVars, otherVars>>

\* time.monotonic() advances between two calls.  The clock is held while the
\* storage is an ARCStorage: its timestamps feed only iter_older_than.
Tick ==
    /\ variant = "Forgetful" /\ now < MaxTime
    /\ now' = now + 1
    /\ UNCHANGED <<variant, data, arc, lastSet>>
    /\ UNCHANGED <<netVars, otherVars>>

StorageNext ==
    \/ \E k \in Keys, v \in Values : FSSet(k, v)
    \/ FSIter
    \/ \E k \in Keys, v \in Values : ARCSet(k, v)
    \/ \E k \in Keys, d \in Defaults : ARCGet(k, d)
    \/ Tick

SpecStorage == StorageInit /\ [][StorageNext]_vars

\* the clock of an ARCStorage advances between two calls
TickARC ==
    /\ variant = "ARC" /\ now < ArcMaxTime
    /\ now' = now + 1
    /\ UNCHANGED <<variant, data, arc, lastSet>>
    /\ UNCHANGED <<netVars, otherVars>>

StorageClockNext == StorageNext \/ TickARC

\* the storage object with the clock advancing on both variants
SpecStorageClock == StorageInit /\ [][StorageClockNext]_vars

(***************************************************************************)
(* DynamicQuorum (src/network.py).  Times are whole seconds of the         *)
(* monotonic clock; latencies are tenths of a second, so that the test     *)
(* avg_latency > 1.0 reads Sum > 10 * Len.                                  *)
(***************************************************************************)
Latencies == {0, 10, 30}

RECURSIVE SumSeq(_)
SumSeq(q) == IF q = <<>> THEN 0 ELSE Head(q) + SumSeq(Tail(q))

Min2(a, b) == IF a <= b THEN a ELSE b
Max2(a, b) == IF a >= b THEN a ELSE b

\* DynamicQuorum.__init__ at time t
DQ_init(min_r, min_w, min_n, t) ==
    [min_r |-> min_r, min_w |-> min_w, min_n |-> min_n,
     current_r |-> min_r, current_w |-> min_w, current_n |-> min_n,
     response_times |-> <<>>, failure_counts |-> 0, last_adjustment |-> t]

\* the same guard with a gate one second shorter
DQ_gated_short(q, t) == t - q.last_adjustment < QuorumGate - 1

\* the guard of the early return of adjust_quorum
DQ_gated(q, t) == t - q.last_adjustment < QuorumGate

\* the bookkeeping of adjust_quorum: the latency window and the failure count
DQ_record(q, latency, success) ==
    LET appended == Append(q.response_times, latency)
        window == IF Len(appended) > QuorumWindow THEN Tail(appended) ELSE appended
    IN  [q EXCEPT !.response_times = window,
                  !.failure_counts = IF ~success THEN q.failure_counts + 1
                                     ELSE Max2(0, q.failure_counts - 1)]

\* the branch test of adjust_quorum: slow on average, or failing
DQ_degraded(q) ==
    \/ SumSeq(q.response_times) > 10 * Len(q.response_times)
    \/ q.failure_counts > QuorumFailures

\* the same step with the read quorum raised without its cap of N - 1
DQ_move_uncapped(q) ==
    IF DQ_degraded(q)
    THEN [q EXCEPT !.current_r = q.current_r + 1,
                   !.current_w = Max2(q.min_w, q.current_w - 1)]
    ELSE [q EXCEPT !.current_r = Max2(q.min_r, q.current_r - 1),
                   !.current_w = Min2(q.current_n - 1, q.current_w + 1)]

\* the two branches of adjust_quorum that move R and W by one
DQ_move(q) ==
    IF DQ_degraded(q)
    THEN [q EXCEPT !.current_r = Min2(q.current_n - 1, q.current_r + 1),
                   !.current_w = Max2(q.min_w, q.current_w - 1)]
    ELSE [q EXCEPT !.current_r = Max2(q.min_r, q.current_r - 1),
                   !.current_w = Min2(q.current_n - 1, q.current_w + 1)]

\* adjust_quorum without its last correction of W
DQ_ensure_none(q) == q

\* the last correction of adjust_quorum: W = N - R + 1 where R + W <= N
DQ_ensure(q) ==
    IF q.current_r + q.current_w <= q.current_n
    THEN [q EXCEPT !.current_w = q.current_n - q.current_r + 1]
    ELSE q

\* DynamicQuorum.adjust_quorum(latency, success) called at time t
DQ_adjust(q, latency, success, t) ==
    IF DQ_gated(q, t) THEN q
    ELSE [DQ_ensure(DQ_move(DQ_record(q, latency, success)))
            EXCEPT !.last_adjustment = t]

\* a controller created with the defaults at time 0; nothing else is running
QuorumInit ==
    /\ now = 0 /\ variant = "Quorum"
    /\ data = <<>> /\ arc = <<>> /\ lastSet = <<>>
    /\ router = <<>> /\ store = <<>> /\ calls = {} /\ op = <<>> /\ done = <<>>
    /\ lost = 0 /\ sets = <<>> /\ started = 0
    /\ handled = <<>>
    /\ lookup = <<>>
    /\ server = <<>>
    /\ refresh = <<>>
    /\ quorum = [dq |-> DQ_init(1, 1, 3, 0), call |-> "none"]

\* one call of adjust_quorum, with any latency and success flag, at the current time
QAdjust(latency, success) ==
    /\ variant = "Quorum"
    /\ quorum' = [dq |-> DQ_adjust(quorum.dq, latency, success, now),
                  call |-> IF DQ_gated(quorum.dq, now) THEN "gated" ELSE "adjusted"]
    /\ UNCHANGED <<storageVars, netVars, handled, lookup, server, refresh>>

\* the monotonic clock advances by a second
QTick ==
    /\ variant = "Quorum" /\ now < MaxQuorumTime
    /\ now' = now + 1
    /\ UNCHANGED <<variant, data, arc, lastSet, netVars, otherVars>>

QuorumNext ==
    \/ \E latency \in Latencies, success \in BOOLEAN : QAdjust(latency, success)
    \/ QTick

SpecQuorum == QuorumInit /\ [][QuorumNext]_vars

(***************************************************************************)
(* The network: NumNodes Servers, each listening with an empty routing     *)
(* table and an empty ForgetfulStorage, under a driver that awaits one     *)
(* public call (bootstrap, get, set) at a time.  A call's coroutine runs   *)
(* up to its next await in one step; requests are handled and replies      *)
(* arrive one datagram at a time, and any RPC in flight may time out.      *)
(***************************************************************************)
\* the values handed to Server.set: a string and a list
SetValues == {"v1", "L"}

OpRec(node, kind, phase, key, dkey, value, heap, nwv, waiting, responses, found) ==
    [node |-> node, kind |-> kind, phase |-> phase, key |-> key, dkey |-> dkey,
     value |-> value, heap |-> heap, nwv |-> nwv, waiting |-> waiting,
     responses |-> responses, found |-> found]
Idle == OpRec(0, "idle", "", "", 0, None, NH_init(0, KSize), {}, {}, <<>>, None)

\* the outcome of a public call: the exception raised ("" when none), the value a
\* get returned, the boolean a set returned, the contacts a bootstrap returned,
\* whether quorum.adjust_quorum was called, and the call_store results gathered
DoneRec(node, kind, key, value, raised, ret, ok, nodes, adjusted, results) ==
    [node |-> node, kind |-> kind, key |-> key, value |-> value, raised |-> raised,
     ret |-> ret, ok |-> ok, nodes |-> nodes, adjusted |-> adjusted, results |-> results]
NoDone == DoneRec(0, "none", "", None, NoErr, None, FALSE, <<>>, FALSE, <<>>)

\* per key: how many set calls passed the type check (2: two or more), and of the
\* last of them the node, the value, whether it has returned, and how the node
\* stood when it was called: alone, or paired with one peer
NoSet == [count |-> 0, node |-> -1, value |-> None, alone |-> FALSE, peer |-> -1,
          completed |-> FALSE]

Call(from, to, method, key, value, bound) ==
    [from |-> from, to |-> to, method |-> method, key |-> key, value |-> value,
     stage |-> "request", reply |-> NoPayload, bound |-> bound]

\* the calls of one gather: one per target
SendCalls(from, targets, method, key, value, bound) ==
    {Call(from, to, method, key, value, bound) : to \in targets}

\* asyncio.ensure_future(self.call_store(node, key, value)) per (key, value)
BackgroundStores(from, to, stores) ==
    {Call(from, to, "store", kv[1], kv[2], "bg") : kv \in stores}

\* the routing table of node n once it has seen the contacts of S, nearest ID last
RECURSIVE RT_with(_, _)
RT_with(n, S) ==
    IF S = {} THEN RT_init
    ELSE LET c == CHOOSE x \in S : \A y \in S : y <= x
         IN  RT_add_contact(RT_with(n, S \ {c}), n, KSize, c)

\* listening nodes with empty storages; each knows the peers it has seen so far
NetInit ==
    /\ router \in {[n \in Nodes |-> RT_with(n, known[n])] :
                       known \in [Nodes -> SUBSET Nodes]}
    /\ \A n \in Nodes : n \notin RT_contacts(router[n])
    /\ started = 0
    /\ store = [n \in Nodes |-> <<>>]
    /\ calls = {}
    /\ op = Idle
    /\ done = NoDone
    /\ lost = 0
    /\ sets = [k \in AppKeys |-> NoSet]

\* a two-node network: n knows exactly the node m, and m knows exactly n
Paired(n, m) == RT_contacts(router[n]) = {m} /\ RT_contacts(router[m]) = {n}

PeerOf(n) ==
    IF \E m \in Nodes \ {n} : Paired(n, m)
    THEN CHOOSE m \in Nodes \ {n} : Paired(n, m) ELSE -1

\* a single-node network: n knows nobody and holds nothing, nobody knows n, and
\* no datagram from or to n is on its way
Isolated(n) ==
    /\ RT_contacts(router[n]) = {}
    /\ store[n] = <<>>
    /\ \A m \in Nodes : n \notin RT_contacts(router[m])
    /\ \A c \in calls : c.from # n /\ c.to # n

(***************************************************************************)
(* Spider (iterative lookup): one round of find().                         *)
(***************************************************************************)
SpiderFind(h) ==
    IF NH_have_contacted_all(h) THEN [fin |-> TRUE, frontier |-> {}]
    ELSE [fin |-> FALSE, frontier |-> Range(FirstN(NH_get_not_contacted(h), Alpha))]

\* node lookup: the responses of a round merged into the heap, in completion order
RECURSIVE MergeNodeResponses(_, _)
MergeNodeResponses(h, responses) ==
    IF responses = <<>> THEN h
    ELSE LET r == Head(responses)
         IN  MergeNodeResponses(
                 IF r.result[1]
                 THEN NH_push(NH_mark_contacted(h, r.peer), r.result[2].nodes)
                 ELSE NH_remove(h, {r.peer}),
                 Tail(responses))

\* value lookup: the same, up to the first response that carries a value
RECURSIVE MergeValueResponses(_, _)
MergeValueResponses(st, responses) ==
    IF responses = <<>> \/ st.found # None THEN st
    ELSE LET r == Head(responses)
         IN  MergeValueResponses(
                 IF ~r.result[1]
                 THEN [st EXCEPT !.heap = NH_remove(@, {r.peer})]
                 ELSE IF r.result[2].tag = "value"
                 THEN [st EXCEPT !.found = r.result[2].value]
                 ELSE [st EXCEPT !.heap = NH_push(NH_mark_contacted(@, r.peer), r.result[2].nodes),
                                 !.nwv = @ \cup {r.peer}],
                 Tail(responses))

(***************************************************************************)
(* Server: the public calls, each up to its first await.                   *)
(***************************************************************************)
SetCompleted(key) == [sets EXCEPT ![key].completed = TRUE]

\* await server.get(key)
ServerGet(n, key) ==
    /\ op.kind = "idle" /\ started < MaxOps
    /\ started' = started + 1
    /\ LET dkey == Digest(key)
           local == FS_get(store[n], dkey, None).result
           nearest == RT_find_neighbors(router[n], dkey, KSize, {})
           h == NH_push(NH_init(dkey, KSize), nearest)
           f == SpiderFind(h)
       IN  IF local # None
           THEN /\ done' = DoneRec(n, "get", key, None, NoErr, local, FALSE, <<>>, FALSE, <<>>)
                /\ UNCHANGED <<op, calls>>
           ELSE IF NoKnownNeighbors(nearest)
           THEN /\ done' = DoneRec(n, "get", key, None, NoErr, None, FALSE, <<>>, FALSE, <<>>)
                /\ UNCHANGED <<op, calls>>
           ELSE /\ op' = OpRec(n, "get", "find", key, dkey, None, h, {}, f.frontier, <<>>, None)
                /\ calls' = calls \cup SendCalls(n, f.frontier, "find_value", dkey, None, "op")
                /\ UNCHANGED done
    /\ UNCHANGED <<router, store, lost, sets, storageVars, otherVars>>

\* await server.set(key, value)
ServerSet(n, key, value) ==
    /\ op.kind = "idle" /\ started < MaxOps
    /\ started' = started + 1
    /\ LET dkey == Digest(key)
           nearest == RT_find_neighbors(router[n], dkey, KSize, {})
           h == NH_push(NH_init(dkey, KSize), nearest)
           f == SpiderFind(h)
           begun == [count |-> Min(sets[key].count + 1, 2), node |-> n, value |-> value,
                       alone |-> Isolated(n), peer |-> PeerOf(n), completed |-> FALSE]
       IN  IF ~check_dht_value_type(value)
           THEN /\ done' = DoneRec(n, "set", key, value, "TypeError", None, FALSE, <<>>, FALSE, <<>>)
                /\ UNCHANGED <<op, calls, sets>>
           ELSE IF NoKnownNeighbors(nearest)
           THEN /\ done' = DoneRec(n, "set", key, value, NoErr, None, FALSE, <<>>, TRUE, <<>>)
                /\ sets' = [sets EXCEPT ![key] = [begun EXCEPT !.completed = TRUE]]
                /\ UNCHANGED <<op, calls>>
           ELSE /\ op' = OpRec(n, "set", "find", key, dkey, value, h, {}, f.frontier, <<>>, None)
                /\ calls' = calls \cup SendCalls(n, f.frontier, "find_node", dkey, None, "op")
                /\ sets' = [sets EXCEPT ![key] = begun]
                /\ UNCHANGED done
    /\ UNCHANGED <<router, store, lost, storageVars, otherVars>>

\* await server.bootstrap(addrs): one protocol.ping per address
Bootstrap(n, addrs) ==
    /\ op.kind = "idle" /\ started < MaxOps
    /\ started' = started + 1
    /\ op' = OpRec(n, "bootstrap", "ping", "", n, None, NH_init(n, KSize), {}, addrs, <<>>, None)
    /\ calls' = calls \cup SendCalls(n, addrs, "ping", 0, None, "raw")
    /\ UNCHANGED <<router, store, done, lost, sets, storageVars, otherVars>>

(***************************************************************************)
(* Datagrams.                                                              *)
(***************************************************************************)
\* the rpc_* handler of the callee runs and its reply is sent
HandleRequest(c) ==
    /\ c \in calls /\ c.stage = "request"
    /\ LET m == c.to
           r == CASE c.method = "ping" -> rpc_ping(router[m], store[m], m, c.from, now)
                  [] c.method = "store" ->
                         rpc_store(router[m], store[m], m, c.from, c.key, c.value, now)
                  [] c.method = "find_node" ->
                         rpc_find_node(router[m], store[m], m, c.from, c.key, now)
                  [] OTHER -> rpc_find_value(router[m], store[m], m, c.from, c.key, now)
       IN  /\ router' = [router EXCEPT ![m] = r.rt]
           /\ store' = [store EXCEPT ![m] = r.d]
           /\ calls' = ((calls \ {c}) \cup {[c EXCEPT !.stage = "reply", !.reply = r.reply]})
                           \cup BackgroundStores(m, c.from, r.stores)
    /\ UNCHANGED <<op, done, lost, sets, started, storageVars, otherVars>>

\* the call c resolves to result at its caller: call_* passes it through
\* handle_call_response, bootstrap_node's protocol.ping does not
Resolve(c, result) ==
    LET n == c.from
        hcr == IF c.bound = "raw" THEN [rt |-> router[n], d |-> store[n], stores |-> {}]
               ELSE handle_call_response(router[n], store[n], n, result, c.to, now)
    IN  /\ router' = [router EXCEPT ![n] = hcr.rt]
        /\ store' = [store EXCEPT ![n] = hcr.d]
        /\ calls' = (calls \ {c}) \cup BackgroundStores(n, c.to, hcr.stores)
        /\ op' = IF c.bound = "bg" THEN op
                 ELSE [op EXCEPT !.waiting = @ \ {c.to},
                                 !.responses = Append(@, [peer |-> c.to, result |-> result])]
        /\ UNCHANGED <<done, sets, started, storageVars, otherVars>>

ReplyArrives(c) ==
    /\ c \in calls /\ c.stage = "reply"
    /\ Resolve(c, RpcReply(c.reply))
    /\ UNCHANGED lost

\* the deadline of the call passes: its request or its reply was lost
Timeout(c) ==
    /\ c \in calls /\ lost < MaxLost
    /\ Resolve(c, RpcTimeout)
    /\ lost' = lost + 1

(***************************************************************************)
(* Server: the public calls, resumed when a gather completes.              *)
(***************************************************************************)
\* bootstrap: the pings are gathered, the node spider starts
BootstrapPinged ==
    /\ op.kind = "bootstrap" /\ op.phase = "ping" /\ op.waiting = {}
    /\ LET nodes == SelectSeq(op.responses, LAMBDA r : r.result[1])
           h == NH_push(op.heap, [i \in DOMAIN nodes |-> nodes[i].result[2].id])
           f == SpiderFind(h)
       IN  IF f.fin
           THEN /\ op' = Idle
                /\ done' = DoneRec(op.node, "bootstrap", "", None, NoErr, None, FALSE,
                                   NH_iter(h), FALSE, <<>>)
                /\ UNCHANGED calls
           ELSE /\ op' = [op EXCEPT !.phase = "find", !.heap = h, !.waiting = f.frontier,
                                    !.responses = <<>>]
                /\ calls' = calls \cup SendCalls(op.node, f.frontier, "find_node", op.dkey, None, "op")
                /\ UNCHANGED done
    /\ UNCHANGED <<router, store, lost, sets, started, storageVars, otherVars>>

\* NodeSpiderCrawl: a round of FIND_NODE is gathered; set_digest and bootstrap
\* continue when the lookup is over
NodeRoundDone ==
    /\ op.kind \in {"set", "bootstrap"} /\ op.phase = "find" /\ op.waiting = {}
    /\ LET h == MergeNodeResponses(op.heap, op.responses)
           f == SpiderFind(h)
           nodes == NH_iter(h)
       IN  IF ~f.fin
           THEN /\ op' = [op EXCEPT !.heap = h, !.waiting = f.frontier, !.responses = <<>>]
                /\ calls' = calls \cup SendCalls(op.node, f.frontier, "find_node", op.dkey, None, "op")
                /\ UNCHANGED <<store, done, sets>>
           ELSE IF op.kind = "bootstrap"
           THEN /\ op' = Idle
                /\ done' = DoneRec(op.node, "bootstrap", "", None, NoErr, None, FALSE,
                                   nodes, FALSE, <<>>)
                /\ UNCHANGED <<calls, store, sets>>
           ELSE IF nodes = <<>>
           THEN \* max([]) raises ValueError out of set_digest and set
                /\ op' = Idle
                /\ done' = DoneRec(op.node, "set", op.key, op.value, "ValueError", None, FALSE,
                                   <<>>, FALSE, <<>>)
                /\ sets' = SetCompleted(op.key)
                /\ UNCHANGED <<calls, store>>
           ELSE /\ store' = [store EXCEPT ![op.node] =
                                IF StoresLocally(op.node, op.dkey, nodes)
                                THEN FS_setitem(@, op.dkey, op.value, now) ELSE @]
                /\ op' = [op EXCEPT !.phase = "store", !.heap = h, !.waiting = Range(nodes),
                                    !.responses = <<>>]
                /\ calls' = calls \cup SendCalls(op.node, Range(nodes), "store", op.dkey, op.value, "op")
                /\ UNCHANGED <<done, sets>>
    /\ UNCHANGED <<router, lost, started, storageVars, otherVars>>

\* set_digest: the call_store results are gathered
StoreDone ==
    /\ op.kind = "set" /\ op.phase = "store" /\ op.waiting = {}
    /\ LET results == [i \in DOMAIN op.responses |-> op.responses[i].result]
       IN  done' = DoneRec(op.node, "set", op.key, op.value, NoErr, None, AnyStored(results),
                           <<>>, TRUE, results)
    /\ op' = Idle
    /\ sets' = SetCompleted(op.key)
    /\ UNCHANGED <<router, store, calls, lost, started, storageVars, otherVars>>

\* ValueSpiderCrawl: a round of FIND_VALUE is gathered
ValueRoundDone ==
    /\ op.kind = "get" /\ op.phase = "find" /\ op.waiting = {}
    /\ LET st == MergeValueResponses([heap |-> op.heap, nwv |-> op.nwv, found |-> None],
                                     op.responses)
           f == SpiderFind(st.heap)
           cands == SortByDistance(st.nwv \cap st.heap.heap, op.dkey)
       IN  IF st.found # None /\ cands # <<>>
           THEN \* the value is cached at the nearest peer that answered without it
                /\ op' = [op EXCEPT !.phase = "cache", !.heap = st.heap, !.nwv = st.nwv,
                                    !.found = st.found, !.waiting = {cands[1]},
                                    !.responses = <<>>]
                /\ calls' = calls \cup SendCalls(op.node, {cands[1]}, "store", op.dkey, st.found, "op")
                /\ UNCHANGED done
           ELSE IF st.found # None \/ f.fin
           THEN /\ op' = Idle
                /\ done' = DoneRec(op.node, "get", op.key, None, NoErr, st.found, FALSE,
                                   <<>>, TRUE, <<>>)
                /\ UNCHANGED calls
           ELSE /\ op' = [op EXCEPT !.heap = st.heap, !.nwv = st.nwv, !.waiting = f.frontier,
                                    !.responses = <<>>]
                /\ calls' = calls \cup SendCalls(op.node, f.frontier, "find_value", op.dkey, None, "op")
                /\ UNCHANGED done
    /\ UNCHANGED <<router, store, lost, sets, started, storageVars, otherVars>>

\* ValueSpiderCrawl: the caching STORE resolves and get returns the value
CacheDone ==
    /\ op.kind = "get" /\ op.phase = "cache" /\ op.waiting = {}
    /\ op' = Idle
    /\ done' = DoneRec(op.node, "get", op.key, None, NoErr, op.found, FALSE, <<>>, TRUE, <<>>)
    /\ UNCHANGED <<router, store, calls, lost, sets, started, storageVars, otherVars>>

NetNext ==
    \/ \E n \in Nodes, key \in AppKeys : ServerGet(n, key)
    \/ \E n \in Nodes, key \in AppKeys, value \in SetValues : ServerSet(n, key, value)
    \/ \E n \in Nodes : \E addrs \in (SUBSET (Nodes \ {n})) \ {{}} : Bootstrap(n, addrs)
    \/ \E c \in calls : HandleRequest(c)
    \/ \E c \in calls : ReplyArrives(c)
    \/ \E c \in calls : Timeout(c)
    \/ BootstrapPinged
    \/ NodeRoundDone
    \/ StoreDone
    \/ ValueRoundDone
    \/ CacheDone

SpecNetInit ==
    /\ now = 0 /\ variant = "Forgetful" /\ data = <<>> /\ arc = ARC_init(1)
    /\ lastSet = [k \in Keys |-> Never]
    /\ NetInit
    /\ quorum = <<>> /\ handled = <<>>
    /\ lookup = <<>>
    /\ server = <<>>
    /\ refresh = <<>>

SpecNet == SpecNetInit /\ [][NetNext]_vars

(***************************************************************************)
(* Network claims.  A step that begins a public call has started' =        *)
(* started + 1; the call is in op' when it awaits and in done' when it     *)
(* returned or raised without awaiting.                                    *)
(***************************************************************************)
CallBegins == started' = started + 1
CallReturnsAtOnce == CallBegins /\ op'.kind = "idle"
CallNode == IF op'.kind = "idle" THEN done'.node ELSE op'.node
CallKind == IF op'.kind = "idle" THEN done'.kind ELSE op'.kind
CallKey == IF op'.kind = "idle" THEN done'.key ELSE op'.key
CallValue == IF op'.kind = "idle" THEN done'.value ELSE op'.value
SupportedTypes == {"int", "float", "bool", "str", "bytes"}

\* C1: a set that gathered only failed STOREs (every result is (False, None))
\* returns false.
C1_TrueOnlyIfStored ==
    (/\ done.kind = "set" /\ done.raised = NoErr
     /\ done.results # <<>>
     /\ \A i \in DOMAIN done.results : ~done.results[i][1])
        => done.ok = FALSE

\* a get begins right after a set of the same key on the same node returned
GetFollowsSet ==
    /\ CallBegins /\ CallKind = "get"
    /\ done.kind = "set" /\ done.node = CallNode /\ done.key = CallKey
    /\ TypeOf(done.value) \in SupportedTypes

\* C2 (as amended): on a single-node network a set of a supported value returns
\* false without raising and stores nothing, and the get of the key that
\* follows on that node returns none.
C2_SingleNodeSetFails ==
    [][(GetFollowsSet /\ sets[done.key].alone)
          => /\ done.raised = NoErr /\ done.ok = FALSE
             /\ store[done.node] = <<>>
             /\ CallReturnsAtOnce /\ done'.ret = None]_vars

\* C2 (as stated): on a single-node network the set returns true and the get
\* that follows returns the value.
C2_SingleNodeSetGet ==
    [][(GetFollowsSet /\ sets[done.key].alone)
          => /\ done.ok = TRUE
             /\ CallReturnsAtOnce /\ done'.ret = done.value]_vars

C2_Witness ==
    /\ done.kind = "get" /\ done.ret = None /\ ~done.adjusted
    /\ started = 2
    /\ sets[done.key].count = 1 /\ sets[done.key].node = done.node
    /\ sets[done.key].alone /\ sets[done.key].completed

\* C3: a get of a key not held locally, and a set, on a node whose routing
\* table has no contacts return none and false at once: no RPC is sent and no
\* storage changes.
C3_NoKnownNeighbors ==
    [][(/\ CallBegins /\ CallKind \in {"get", "set"}
        /\ RT_contacts(router[CallNode]) = {}
        /\ CallKind = "get" => FS_get(store[CallNode], Digest(CallKey), None).result = None
        /\ CallKind = "set" => TypeOf(CallValue) \in SupportedTypes)
          => /\ CallReturnsAtOnce /\ done'.raised = NoErr
             /\ CallKind = "get" => done'.ret = None
             /\ CallKind = "set" => done'.ok = FALSE
             /\ calls' = calls /\ store' = store]_vars

C3_Witness ==
    /\ op.kind = "idle" /\ done.kind = "set" /\ done.raised = NoErr
    /\ done.ok = FALSE /\ done.results = <<>>
    /\ RT_contacts(router[done.node]) = {}
    /\ \E m \in Nodes : RT_contacts(router[m]) # {}

\* C4: a set of a value of an unsupported type raises TypeError at once: no
\* datagram is sent, no storage and no routing table changes, and the quorum
\* controller is not called.
C4_BadValueType ==
    [][(CallBegins /\ CallKind = "set" /\ TypeOf(CallValue) \notin SupportedTypes)
          => /\ CallReturnsAtOnce /\ done'.raised = "TypeError"
             /\ ~done'.adjusted
             /\ calls' = calls /\ store' = store /\ router' = router]_vars

C4_Witness ==
    /\ op.kind = "idle" /\ done.kind = "set" /\ done.raised = "TypeError"
    /\ TypeOf(done.value) = "list"
    /\ RT_contacts(router[done.node]) # {}

\* C5: in a network of two nodes that know each other, with no RPC lost, a get
\* of k on either node after the one set(k, v) has returned gives v.
C5_TwoNodesSetGet ==
    \A k \in AppKeys :
        (/\ done.kind = "get" /\ done.key = k
         /\ sets[k].count = 1 /\ sets[k].completed /\ sets[k].peer \in Nodes
         /\ done.node \in {sets[k].node, sets[k].peer}
         /\ lost = 0)
            => done.ret = sets[k].value

\* the get of the node that is farther from the key and so holds no copy
C5_Witness ==
    \E k \in AppKeys :
        /\ done.kind = "get" /\ done.key = k /\ done.ret = sets[k].value
        /\ sets[k].count = 1 /\ sets[k].completed /\ sets[k].peer \in Nodes
        /\ done.node = sets[k].node /\ done.adjusted
        /\ lost = 0

(***************************************************************************)
(* Storage claims.                                                         *)
(***************************************************************************)
\* the live lists of the ARCStorage hold key
ARC_live(s, key) == Has(s.T1, key) \/ Has(s.T2, key)

\* C6: ARCStorage, in every reachable state (k in a ghost list included): a
\* set(k, v) that completes, immediately followed by get(k), returns v.
C6_SetThenGet ==
    variant = "ARC" =>
        \A k \in Keys, v \in Values :
            LET s == ARC_setitem(arc, k, v, now)
            IN  s.err = NoErr => ARC_get(s, k, None).result = v

\* C7: ForgetfulStorage: from set(k, v) on, until k is set again or its TTL has
\* elapsed, get(k) returns v, whatever was set, got or iterated in between.
C7_GetUntilExpiry ==
    variant = "Forgetful" =>
        \A k \in Keys :
            (lastSet[k] # Never /\ now - lastSet[k].t < TTL)
                => FS_get(data, k, None) = [raised |-> FALSE, result |-> lastSet[k].v]

\* a young entry is still held after an iteration has culled an older one
C7_Witness ==
    /\ variant = "Forgetful"
    /\ \E k \in Keys, j \in Keys :
        /\ lastSet[k] # Never /\ now - lastSet[k].t < TTL /\ now > lastSet[k].t
        /\ lastSet[j] # Never /\ ~Has(data, j)

\* C8: ForgetfulStorage: once an entry is older than the TTL, get(k) returns the
\* default, iterated or not.
C8_ExpiredNotReturned ==
    variant = "Forgetful" =>
        \A k \in Keys, d \in Defaults :
            (lastSet[k] # Never /\ now - lastSet[k].t > TTL)
                => FS_get(data, k, d).result = d

\* C9: get(k, default) never raises, on either variant: it returns the value held
\* under k in the live lists, and the default when k is not there (a key that is
\* only in a ghost list of the ARCStorage included).
C9_GetNeverRaises ==
    \A k \in Keys, d \in Defaults :
        /\ variant = "Forgetful" =>
            FS_get(data, k, d) =
                [raised |-> FALSE, result |-> IF k \in KeysOf(data) THEN Item(data, k).v ELSE d]
        /\ variant = "ARC" =>
            LET r == ARC_get(arc, k, d)
            IN  /\ ~r.raised
                /\ r.state.err = NoErr
                /\ r.result = IF k \in KeysOf(arc.T1) THEN Item(arc.T1, k).v
                              ELSE IF k \in KeysOf(arc.T2) THEN Item(arc.T2, k).v
                              ELSE d

\* one key is only in a ghost list while another is live
C9_Witness ==
    /\ variant = "ARC"
    /\ \E k \in Keys, j \in Keys :
        /\ (Has(arc.B1, k) \/ Has(arc.B2, k)) /\ ~ARC_live(arc, k)
        /\ ARC_live(arc, j)

\* C10: ARCStorage: |T1| + |T2| <= capacity after any sequence of sets and gets.
C10_LiveBound ==
    variant = "ARC" => Len(arc.T1) + Len(arc.T2) <= arc.capacity

\* the cache is full, with both live lists in use, after an eviction to a ghost list
C10_Witness ==
    /\ variant = "ARC"
    /\ arc.capacity >= 2
    /\ arc.T1 # <<>> /\ arc.T2 # <<>>
    /\ Len(arc.T1) + Len(arc.T2) = arc.capacity
    /\ (arc.B1 # <<>> \/ arc.B2 # <<>>)

\* C11: ARCStorage: |T1| + |B1| <= capacity after any sequence of sets and gets.
C11_RecentBound ==
    variant = "ARC" => Len(arc.T1) + Len(arc.B1) <= arc.capacity

\* T1 and its ghost list B1 together fill the capacity
C11_Witness ==
    /\ variant = "ARC"
    /\ arc.capacity >= 2
    /\ arc.T1 # <<>> /\ arc.B1 # <<>>
    /\ Len(arc.T1) + Len(arc.B1) = arc.capacity

\* C12: ARCStorage: |T1| + |T2| + |B1| + |B2| <= 2 * capacity after any sequence
\* of sets and gets.
C12_TotalBound ==
    variant = "ARC" => ARC_total(arc) <= 2 * arc.capacity

\* the four lists hold 2 * capacity keys and a new key has just come into T1
C12_Witness ==
    /\ variant = "ARC"
    /\ ARC_total(arc) = 2 * arc.capacity
    /\ arc.T1 # <<>> /\ arc.B2 # <<>>

\* what a client observes of a storage, birthdays apart: get of every key and
\* the (key, value) sequence of an iteration
FS_observe(d, t) ==
    [gets |-> [k \in Keys |-> FS_get(d, k, None).result], iter |-> FS_iter(d, t)]
ARC_observe(s) ==
    [gets |-> [k \in Keys |-> ARC_get(s, k, None).result],
     iter |-> [i \in DOMAIN ARC_iter(s) |-> <<ARC_iter(s)[i][1], ARC_iter(s)[i][3]>>]]

\* C13: on both variants, from every reachable state, set(k, v) made twice in
\* a row leaves the same observable state as set(k, v) made once.
C13_SetIdempotent ==
    \A k \in Keys, v \in Values :
        /\ variant = "Forgetful" =>
            LET d1 == FS_setitem(data, k, v, now)
            IN  FS_observe(FS_setitem(d1, k, v, now), now) = FS_observe(d1, now)
        /\ variant = "ARC" =>
            LET s1 == ARC_setitem(arc, k, v, now)
                s2 == ARC_setitem(s1, k, v, now)
            IN  (s1.err = NoErr /\ s2.err = NoErr) => ARC_observe(s2) = ARC_observe(s1)

\* C14: iterating a storage yields (key, value) pairs, the value being the one
\* last set for the key, in insertion order; a ForgetfulStorage yields them
\* for exactly the entries that are not expired.
C14_IterPairs ==
    /\ variant = "Forgetful" =>
        LET it == FS_iter(data, now)
        IN  /\ \A i \in DOMAIN it :
                  /\ Len(it[i]) = 2
                  /\ it[i][1] \in Keys
                  /\ it[i][2] = lastSet[it[i][1]].v
                  /\ now - lastSet[it[i][1]].t < TTL
            /\ \A k \in Keys :
                  (lastSet[k] # Never /\ now - lastSet[k].t < TTL)
                      => \E i \in DOMAIN it : it[i][1] = k
            /\ \A i, j \in DOMAIN it :
                  i < j => /\ it[i][1] # it[j][1]
                           /\ lastSet[it[i][1]].t <= lastSet[it[j][1]].t
    /\ variant = "ARC" =>
        LET it == ARC_iter(arc)
        IN  \A i \in DOMAIN it : Len(it[i]) = 2 /\ it[i][2] \in Values

\* the (key, value) pairs of the entries of an OrderedDict born at or before b
OlderPairs(od, b) == {<<od[i].k, od[i].v>> : i \in {j \in DOMAIN od : od[j].t <= b}}

\* C15: iter_older_than(D) returns the (key, value) pairs of exactly the stored
\* entries with birthday <= now - D, each once, on both variants.
C15_OlderThanExact ==
    \A D \in 0..MaxTime :
        /\ variant = "Forgetful" =>
            LET r == FS_iter_older_than(data, now, D)
            IN  /\ Range(r) = OlderPairs(data, now - D)
                /\ Len(r) = Cardinality(OlderPairs(data, now - D))
        /\ variant = "ARC" =>
            LET r == ARC_iter_older_than(arc, now, D)
            IN  /\ Range(r) = OlderPairs(arc.T1 \o arc.T2, now - D)
                /\ Len(r) = Cardinality(OlderPairs(arc.T1 \o arc.T2, now - D))

\* two entries of different ages are held, and only the older is old enough
C15_Witness ==
    /\ variant = "Forgetful"
    /\ \E i, j \in DOMAIN data :
          /\ i < j /\ data[i].t < data[j].t
          /\ Len(FS_iter_older_than(data, now, now - data[i].t)) = i

\* C18: every public get and set call that completes (returns without
\* raising) has invoked the quorum controller's adjust_quorum once, whichever
\* path it took: answered from local storage, no known neighbors, or a
\* network lookup.
C18_AdjustOnEveryPath ==
    done.kind \in {"get", "set"} /\ done.raised = NoErr => done.adjusted

(***************************************************************************)
(* DynamicQuorum claims, checked under SpecQuorum.                         *)
(***************************************************************************)
QR == quorum.dq.current_r
QW == quorum.dq.current_w
QN == quorum.dq.current_n

\* C16 as stated: after every call to adjust, gated or not, R + W > N.
C16_AfterEveryCall == quorum.call # "none" => QR + QW > QN

\* C16: on a controller created with the defaults, R + W > N holds after
\* every call to adjust that is made at least five seconds after the
\* construction or the last adjustment, and from then on; a call made
\* sooner returns without changing R, W or N.
C16_AfterAdjustment ==
    /\ quorum.call = "adjusted" => QR + QW > QN
    /\ quorum.dq.response_times # <<>> => QR + QW > QN
    /\ quorum.dq.response_times = <<>> => QR = 1 /\ QW = 1 /\ QN = 3

\* an adjustment in which the last correction of W was needed
C16_Witness ==
    /\ quorum.call = "adjusted"
    /\ QR + QW = QN + 1
    /\ QW = QN - QR + 1
    /\ QR = 1

\* C17 as stated: after every call to adjust, W_min <= W <= N-1 and
\* R_min <= R <= N-1.
C17_BoundsNMinusOne ==
    quorum.call # "none" =>
        /\ quorum.dq.min_w <= QW /\ QW <= QN - 1
        /\ quorum.dq.min_r <= QR /\ QR <= QN - 1

\* C17: after every call to adjust, W_min <= W <= N and R_min <= R <= N-1;
\* W reaches N when the last correction sets W = N - R + 1 with R = 1.
C17_Bounds ==
    quorum.call # "none" =>
        /\ quorum.dq.min_w <= QW /\ QW <= QN
        /\ quorum.dq.min_r <= QR /\ QR <= QN - 1

\* two degraded adjustments in a row: R stands at its cap of N - 1
C17_Witness ==
    /\ quorum.call = "adjusted"
    /\ Len(quorum.dq.response_times) >= 2
    /\ DQ_degraded(quorum.dq)
    /\ QR = QN - 1
(***************************************************************************)
(* The protocol of one node, RpcHome, as its dispatcher sees it: requests  *)
(* of the five kinds arrive from any peer with any key and value, the      *)
(* rpc_* handler runs, and `handled` records the request, the node's state *)
(* before it, and the reply.  RpcHome starts with an empty storage and has *)
(* seen any of its peers.                                                  *)
(***************************************************************************)
RpcHome == NodeIdOf(1)
RpcSenders == Nodes \ {RpcHome}
\* the 20-byte keys of STORE, FIND_NODE and FIND_VALUE requests
RpcKeys == {Digest(x) : x \in AppKeys} \cup {RpcHome}
\* the values a STORE request carries: the handler takes whatever was packed
RpcValues == {"v1", None}

Request(kind, sender, key, value, rt, d, r) ==
    [kind |-> kind, sender |-> sender, key |-> key, value |-> value,
     rt |-> rt, d |-> d, reply |-> r.reply, stores |-> r.stores]
NoRequest ==
    [kind |-> "none", sender |-> -1, key |-> -1, value |-> None,
     rt |-> <<>>, d |-> <<>>, reply |-> NoPayload, stores |-> {}]

RpcInit ==
    /\ now = 0 /\ variant = "Rpc"
    /\ data = <<>> /\ arc = <<>> /\ lastSet = <<>>
    /\ router \in {[n \in Nodes |-> IF n = RpcHome THEN RT_with(n, known) ELSE RT_init] :
                       known \in SUBSET RpcSenders}
    /\ store = [n \in Nodes |-> <<>>]
    /\ calls = {} /\ op = Idle /\ done = NoDone
    /\ lost = 0 /\ sets = [k \in AppKeys |-> NoSet] /\ started = 0
    /\ quorum = <<>>
    /\ handled = NoRequest
    /\ lookup = <<>>
    /\ server = <<>>
    /\ refresh = <<>>

\* the handler's result r takes effect at RpcHome: routing table, storage, and
\* the STORE calls welcome_if_new started
Dispatch(kind, sender, key, value, r) ==
    /\ variant = "Rpc"
    /\ handled' = Request(kind, sender, key, value, router[RpcHome], store[RpcHome], r)
    /\ router' = [router EXCEPT ![RpcHome] = r.rt]
    /\ store' = [store EXCEPT ![RpcHome] = r.d]
    /\ calls' = calls \cup BackgroundStores(RpcHome, sender, r.stores)
    /\ UNCHANGED <<op, done, lost, sets, started, storageVars, quorum, lookup, server, refresh>>

RpcStun(sender) ==
    /\ sender \in RpcSenders
    /\ Dispatch("stun", sender, -1, None,
                rpc_stun(router[RpcHome], store[RpcHome], RpcHome, sender, now))

RpcPing(sender) ==
    /\ sender \in RpcSenders
    /\ Dispatch("ping", sender, -1, None,
                rpc_ping(router[RpcHome], store[RpcHome], RpcHome, sender, now))

RpcStore(sender, key, value) ==
    /\ sender \in RpcSenders
    /\ Dispatch("store", sender, key, value,
                rpc_store(router[RpcHome], store[RpcHome], RpcHome, sender, key, value, now))

RpcFindNode(sender, key) ==
    /\ sender \in RpcSenders
    /\ Dispatch("find_node", sender, key, None,
                rpc_find_node(router[RpcHome], store[RpcHome], RpcHome, sender, key, now))

RpcFindValue(sender, key) ==
    /\ sender \in RpcSenders
    /\ Dispatch("find_value", sender, key, None,
                rpc_find_value(router[RpcHome], store[RpcHome], RpcHome, sender, key, now))

RpcNext ==
    \/ \E sender \in RpcSenders : RpcStun(sender)
    \/ \E sender \in RpcSenders : RpcPing(sender)
    \/ \E sender \in RpcSenders, key \in RpcKeys, value \in RpcValues :
          RpcStore(sender, key, value)
    \/ \E sender \in RpcSenders, key \in RpcKeys : RpcFindNode(sender, key)
    \/ \E sender \in RpcSenders, key \in RpcKeys : RpcFindValue(sender, key)

SpecRpc == RpcInit /\ [][RpcNext]_vars

\* what welcome_if_new(sender) makes of the node's state before the request
Welcomed == welcome_if_new(handled.rt, handled.d, RpcHome, handled.sender, now)

RpcKinds == {"stun", "ping", "store", "find_node", "find_value"}

\* C19 as stated: every request dispatched to a handler, stun included, runs
\* welcome_if_new(sender) before the handler's own logic: when the reply is
\* produced the sender has been offered to the routing table.
C19_WelcomeAlways ==
    handled.kind \in RpcKinds =>
        /\ router[RpcHome] = Welcomed.rt
        /\ ~RT_is_new_node(router[RpcHome], handled.sender)

\* C19: every ping, store, find_node and find_value request runs
\* welcome_if_new(sender) before the handler's own logic: the routing table
\* is the one welcome_if_new leaves, the sender is in it, and the STOREs
\* offered to a new sender are those of the storage as it was before the
\* handler's own logic; a stun request, which carries no node ID, leaves the
\* routing table as it was and replies with the sender's address.
C19_WelcomeFirst ==
    /\ handled.kind \in RpcKinds \ {"stun"} =>
          /\ router[RpcHome] = Welcomed.rt
          /\ ~RT_is_new_node(router[RpcHome], handled.sender)
          /\ handled.stores = Welcomed.stores
    /\ handled.kind = "stun" =>
          /\ router[RpcHome] = handled.rt
          /\ handled.stores = {}
          /\ handled.reply.tag = "address" /\ handled.reply.id = handled.sender

\* a ping of a sender the node did not know, with a key in storage to offer
C19_Witness ==
    /\ handled.kind = "ping"
    /\ RT_is_new_node(handled.rt, handled.sender)
    /\ handled.sender \in RT_contacts(router[RpcHome])
    /\ handled.stores # {}

\* C20: the FIND_VALUE handler replies {value: v} if and only if the key is
\* stored locally, with v the stored value, and otherwise replies with
\* exactly the payload of FIND_NODE for the same sender and key: up to k
\* nearest contacts, never the sender.
C20_FindValueReply ==
    handled.kind = "find_value" =>
        LET d == store[RpcHome]
            stored == Has(d, handled.key)
            nodes == rpc_find_node(router[RpcHome], d, RpcHome, handled.sender,
                                   handled.key, now).reply
        IN  /\ stored <=> handled.reply.tag = "value"
            /\ stored => handled.reply.value = Item(d, handled.key).v
            /\ ~stored =>
                  /\ handled.reply = nodes
                  /\ Len(handled.reply.nodes) <= KSize
                  /\ handled.sender \notin Range(handled.reply.nodes)
(***************************************************************************)
(* PING between two nodes, checked under SpecNet: bootstrap_node sends it. *)
(***************************************************************************)
\* C21: when node A sends PING to node B and the datagrams are delivered,
\* B's routing table contains A from the moment B has produced the reply,
\* the reply carries B's node id, and A's call resolves with it.
C21_PingDelivered ==
    [][\A c \in calls : c.method = "ping" =>
          /\ HandleRequest(c) =>
                /\ c.from \in RT_contacts(router'[c.to])
                /\ \E r \in calls' : /\ r.from = c.from /\ r.to = c.to /\ r.method = "ping"
                                     /\ r.stage = "reply" /\ r.reply.tag = "id"
                                     /\ r.reply.id = c.to
          /\ ReplyArrives(c) =>
                /\ Len(op'.responses) = Len(op.responses) + 1
                /\ op'.responses[Len(op'.responses)] =
                       [peer |-> c.to, result |-> RpcReply(Payload("id", c.to, <<>>, None))]
      ]_vars

\* a bootstrapping node holds the id of a peer it pinged and did not know it had
\* met, and that peer's routing table contains the node
C21_Witness ==
    /\ op.kind = "bootstrap"
    /\ \E i \in DOMAIN op.responses :
          LET r == op.responses[i]
          IN  /\ r.result[1] /\ r.result[2].tag = "id" /\ r.result[2].id = r.peer
              /\ op.node \in RT_contacts(router[r.peer])
              /\ r.peer \notin RT_contacts(router[op.node])
(***************************************************************************)
(* welcome_if_new, applied to every state RpcHome reaches under SpecRpc    *)
(* and to every contact.                                                   *)
(***************************************************************************)
\* C22: welcome_if_new(c) for a contact c not in the routing table sends
\* STORE(k, v) to c for exactly the stored keys k for which c is closer to k
\* than the farthest of the k nearest known neighbors and the home node is
\* closer to k than the nearest of them, and then adds c to the routing
\* table; for a contact already in the routing table it sends nothing and
\* changes nothing.
C22_WelcomeStores ==
    variant = "Rpc" =>
        \A c \in RpcSenders :
            LET rt == router[RpcHome]
                d == store[RpcHome]
                w == welcome_if_new(rt, d, RpcHome, c, now)
                Closer(key) ==
                    LET neighbors == RT_find_neighbors(rt, key, KSize, {})
                    IN  /\ neighbors # <<>>
                        /\ Distance(c, key) < Distance(neighbors[Len(neighbors)], key)
                        /\ Distance(RpcHome, key) < Distance(neighbors[1], key)
            IN  IF RT_is_new_node(rt, c)
                THEN /\ w.stores = {<<d[i].k, d[i].v>> : i \in {j \in DOMAIN d : Closer(d[j].k)}}
                     /\ c \in RT_contacts(w.rt)
                ELSE w.stores = {} /\ w.rt = rt /\ w.d = d
(***************************************************************************)
(* NodeHeap (node.py) with the contacts it holds: a contact is [id, addr], *)
(* the heap is the set of its contacts (one per ID, by __contains__), read *)
(* in the order heapq yields them.  NH_* above is the same class with the  *)
(* addresses left out, for networks where an ID has one address.           *)
(***************************************************************************)
Contact(id, addr) == [id |-> id, addr |-> addr]
Contacts == {Contact(id, addr) : id \in Nodes, addr \in 1..NumAddrs}
IdsOf(S) == {c.id : c \in S}

NodeHeap_init(target, maxsize) ==
    [node |-> target, heap |-> {}, maxsize |-> maxsize, contacted |-> {}]

\* __contains__: by ID
NodeHeap_contains(h, c) == \E other \in h.heap : c.id = other.id

\* push: each node of the list, in order, unless the heap contains its ID
RECURSIVE NodeHeap_push(_, _)
NodeHeap_push(h, nodes) ==
    IF nodes = <<>> THEN h
    ELSE NodeHeap_push(IF NodeHeap_contains(h, Head(nodes)) THEN h
                       ELSE [h EXCEPT !.heap = @ \cup {Head(nodes)}],
                       Tail(nodes))

\* remove: the heap rebuilt without the peers (a set of IDs)
NodeHeap_remove(h, peers) ==
    IF peers = {} THEN h ELSE [h EXCEPT !.heap = {e \in @ : e.id \notin peers}]

\* mark_contacted that forgets
NodeHeap_mark_contacted_not(h, c) == h

NodeHeap_mark_contacted(h, c) == [h EXCEPT !.contacted = @ \cup {c.id}]

\* __iter__ with nlargest in place of nsmallest
NodeHeap_iter_largest(h) ==
    LET ids == SortByDistance(IdsOf(h.heap), h.node)
        far == SubSeq(ids, Max(1, Len(ids) - h.maxsize + 1), Len(ids))
    IN  [i \in DOMAIN far |-> CHOOSE e \in h.heap : e.id = far[i]]

\* __iter__: heapq.nsmallest(maxsize, heap), nearest first
NodeHeap_iter(h) ==
    LET ids == FirstN(SortByDistance(IdsOf(h.heap), h.node), h.maxsize)
    IN  [i \in DOMAIN ids |-> CHOOSE e \in h.heap : e.id = ids[i]]

NodeHeap_get_not_contacted(h) ==
    SelectSeq(NodeHeap_iter(h), LAMBDA c : c.id \notin h.contacted)

NodeHeap_have_contacted_all(h) == Len(NodeHeap_get_not_contacted(h)) = 0

(***************************************************************************)
(* One iterative lookup toward LookupTarget over the peers Nodes.  Each    *)
(* peer asked answers with any list of contacts, with the value (value     *)
(* lookup), or not at all; the answers of a round come in any order and    *)
(* are merged as they come.  `lookup` holds the heap, the heap as it was   *)
(* when the round began, the peers still asked, and of the round's         *)
(* responses, in completion order, the peer and whether it answered.       *)
(***************************************************************************)
LookupTarget == Digest("ka")
LookupKinds == {"node", "value"}

\* the lists of contacts a FIND_NODE or FIND_VALUE reply may carry
ContactLists == UNION {[1..n -> Contacts] : n \in 0..MaxList}

\* the contacts the lookup starts from: up to alpha local contacts, one per ID
StartLists == {l \in ContactLists :
                  /\ l # <<>> /\ Len(l) <= LookupAlpha
                  /\ \A i, j \in DOMAIN l : i # j => l[i].id # l[j].id}

Response(peer, ok, nodes, value) == [peer |-> peer, ok |-> ok, nodes |-> nodes, value |-> value]

\* one response merged: on success the peer is marked contacted and its contacts
\* pushed, on failure the peer is removed from the heap
MergeResponse(h, r) ==
    IF r.ok THEN NodeHeap_push(NodeHeap_mark_contacted(h, Contact(r.peer, 0)), r.nodes)
    ELSE NodeHeap_remove(h, {r.peer})

RECURSIVE MergeInOrder(_, _)
MergeInOrder(h, responses) ==
    IF responses = <<>> THEN h
    ELSE MergeInOrder(MergeResponse(h, Head(responses)), Tail(responses))

LookupInit ==
    /\ now = 0 /\ variant = "Lookup"
    /\ data = <<>> /\ arc = <<>> /\ lastSet = <<>>
    /\ router = <<>> /\ store = <<>> /\ calls = {} /\ op = <<>> /\ done = <<>>
    /\ lost = 0 /\ sets = <<>> /\ started = 0
    /\ quorum = <<>> /\ handled = <<>> /\ server = <<>>
    /\ refresh = <<>>
    /\ \E kind \in LookupKinds, nearest \in StartLists :
          LET h == NodeHeap_push(NodeHeap_init(LookupTarget, LookupK), nearest)
          IN  lookup = [kind |-> kind, heap |-> h, begin |-> h, waiting |-> {},
                        got |-> <<>>, fin |-> FALSE, result |-> <<>>, value |-> None]

\* find(): the lookup ends when every contact of the top k has been contacted,
\* and otherwise asks up to alpha of those not contacted, nearest first
LookupFind ==
    /\ variant = "Lookup" /\ ~lookup.fin /\ lookup.waiting = {}
    /\ LET h == lookup.heap
           frontier == FirstN(NodeHeap_get_not_contacted(h), LookupAlpha)
       IN  IF NodeHeap_have_contacted_all(h)
           THEN lookup' = [lookup EXCEPT !.fin = TRUE,
                              !.result = IF lookup.kind = "node" THEN NodeHeap_iter(h) ELSE <<>>]
           ELSE lookup' = [lookup EXCEPT !.begin = h, !.got = <<>>,
                              !.waiting = IdsOf(Range(frontier))]
    /\ UNCHANGED <<storageVars, netVars, quorum, handled, server, refresh>>

\* the peer answers with a list of contacts
LookupReply(peer, nodes) ==
    /\ variant = "Lookup" /\ peer \in lookup.waiting
    /\ LET r == Response(peer, TRUE, nodes, None)
       IN  lookup' = [lookup EXCEPT !.heap = MergeResponse(@, r),
                                    !.waiting = @ \ {peer},
                                    !.got = Append(@, [peer |-> peer, ok |-> TRUE])]
    /\ UNCHANGED <<storageVars, netVars, quorum, handled, server, refresh>>

\* the peer answers a FIND_VALUE with the value: the lookup stops at once
LookupValue(peer, value) ==
    /\ variant = "Lookup" /\ peer \in lookup.waiting /\ lookup.kind = "value"
    /\ lookup' = [lookup EXCEPT !.waiting = {}, !.fin = TRUE, !.value = value,
                                !.got = Append(@, [peer |-> peer, ok |-> TRUE])]
    /\ UNCHANGED <<storageVars, netVars, quorum, handled, server, refresh>>

\* the call to the peer ends by its deadline
LookupTimeout(peer) ==
    /\ variant = "Lookup" /\ peer \in lookup.waiting
    /\ LET r == Response(peer, FALSE, <<>>, None)
       IN  lookup' = [lookup EXCEPT !.heap = MergeResponse(@, r),
                                    !.waiting = @ \ {peer},
                                    !.got = Append(@, [peer |-> peer, ok |-> FALSE])]
    /\ UNCHANGED <<storageVars, netVars, quorum, handled, server, refresh>>

LookupNext ==
    \/ LookupFind
    \/ \E peer \in Nodes, nodes \in ContactLists : LookupReply(peer, nodes)
    \/ \E peer \in Nodes : LookupValue(peer, "v1")
    \/ \E peer \in Nodes : LookupTimeout(peer)

SpecLookup == LookupInit /\ [][LookupNext]_vars

\* every call resolves, by a reply or by its deadline, and find() goes on
SpecLookupLive == SpecLookup /\ WF_vars(LookupNext)

\* C23: every iterative lookup, node or value, over a finite set of peers
\* terminates, for any pattern of replies, timeouts and returned contact
\* lists.
C23_LookupTerminates == <>(lookup.fin)

\* a node lookup that ended with k contacts after a round in which one peer
\* failed and another answered
C23_Witness ==
    /\ lookup.fin /\ lookup.kind = "node" /\ Len(lookup.result) = LookupK
    /\ \E i, j \in DOMAIN lookup.got : ~lookup.got[i].ok /\ lookup.got[j].ok
\* the distance to the target of the farthest contact among the heap's top k
Farthest(h) ==
    LET top == NodeHeap_iter(h)
    IN  Distance(top[Len(top)].id, h.node)

\* a round of the lookup has ended: every peer asked has answered or failed
RoundEnded == lookup.waiting = {} /\ lookup.got # <<>>

\* C24 as stated: at the end of every round the farthest top-k distance is
\* at most what it was at the end of the round before, rounds in which
\* peers fail and are removed included.
C24_FarthestNeverGrows ==
    RoundEnded /\ lookup.heap.heap # {} /\ lookup.begin.heap # {} =>
        Farthest(lookup.heap) <= Farthest(lookup.begin)

\* C24: at the end of a round in which no peer failed, and before which the
\* heap held at least k contacts, the farthest top-k distance is at most
\* what it was at the end of the round before.
C24_FarthestOfFullHeap ==
    /\ RoundEnded
    /\ Len(NodeHeap_iter(lookup.begin)) = LookupK
    /\ \A i \in DOMAIN lookup.got : lookup.got[i].ok
    => Farthest(lookup.heap) <= Farthest(lookup.begin)

\* a round without failures that brought a nearer contact into a full top k
C24_Witness ==
    /\ RoundEnded
    /\ Len(NodeHeap_iter(lookup.begin)) = LookupK
    /\ \A i \in DOMAIN lookup.got : lookup.got[i].ok
    /\ Farthest(lookup.heap) < Farthest(lookup.begin)

\* C25: within one round, merging the same responses into the node heap in
\* any completion order produces the same final heap and the same top-k
\* contacts, addresses included.
C25_OrderIndependent ==
    variant = "Lookup" =>
        \A p, q \in lookup.waiting :
            \A np, nq \in ContactLists, okp, okq \in BOOLEAN :
                LET rp == Response(p, okp, IF okp THEN np ELSE <<>>, None)
                    rq == Response(q, okq, IF okq THEN nq ELSE <<>>, None)
                    pq == MergeInOrder(lookup.heap, <<rp, rq>>)
                    qp == MergeInOrder(lookup.heap, <<rq, rp>>)
                IN  p # q => pq = qp /\ NodeHeap_iter(pq) = NodeHeap_iter(qp)
(***************************************************************************)
(* The routing table of one node, RouteHome, with k = RouteK, under any    *)
(* sequence of add_contact and remove_contact of any other ID.             *)
(***************************************************************************)
RouteHome == NodeIdOf(1)
RouteIds == IdSpace \ {RouteHome}

RouteInit ==
    /\ now = 0 /\ variant = "Route"
    /\ data = <<>> /\ arc = <<>> /\ lastSet = <<>>
    /\ router = [n \in {RouteHome} |-> RT_init]
    /\ store = <<>> /\ calls = {} /\ op = <<>> /\ done = <<>>
    /\ lost = 0 /\ sets = <<>> /\ started = 0
    /\ quorum = <<>> /\ handled = <<>> /\ lookup = <<>>
    /\ server = <<>>
    /\ refresh = <<>>

RouteAdd(c) ==
    /\ variant = "Route"
    /\ router' = [router EXCEPT ![RouteHome] = RT_add_contact(@, RouteHome, RouteK, c)]
    /\ UNCHANGED <<store, calls, op, done, lost, sets, started, storageVars, otherVars>>

RouteRemove(c) ==
    /\ variant = "Route"
    /\ router' = [router EXCEPT ![RouteHome] = RT_remove_contact(@, c)]
    /\ UNCHANGED <<store, calls, op, done, lost, sets, started, storageVars, otherVars>>

RouteNext ==
    \/ \E c \in RouteIds : RouteAdd(c)
    \/ \E c \in RouteIds : RouteRemove(c)

SpecRoute == RouteInit /\ [][RouteNext]_vars

\* bucket b is full and may not split: add_contact queues in its replacement list
RT_must_queue(b, home, k) ==
    /\ Len(b.live) >= k
    /\ ~(b.hi - b.lo >= 2 /\ ((b.lo <= home /\ home < b.hi) \/ RT_depth(b, home) % 5 # 0))

NoRepeats(seq) == \A i, j \in DOMAIN seq : i # j => seq[i] # seq[j]

C27_StaleEviction ==
    variant = "Route" =>
        \A c \in RouteIds :
            LET rt == router[RouteHome]
                i == RT_bucket_of(rt, c)
                queued == RT_add_contact(rt, RouteHome, RouteK, c)
            IN  RT_must_queue(rt[i], RouteHome, RouteK) /\ c \notin Range(rt[i].live) =>
                  /\ Len(queued) = Len(rt)
                  /\ queued[i].live = rt[i].live
                  /\ queued[i].replacement # <<>>
                  /\ queued[i].replacement[Len(queued[i].replacement)] = c
                  /\ \A x \in Range(rt[i].live) :
                        LET evicted == RT_remove_contact(queued, x)
                        IN  /\ evicted[i].live = Append(WithoutId(rt[i].live, x), c)
                            /\ evicted[i].replacement = WithoutId(rt[i].replacement, c)

\* a new contact was queued behind a full bucket that may not split, and the
\* removal of the least recently seen live contact has put it into the live list
C27_Witness ==
    /\ variant = "Route"
    /\ LET rt == router[RouteHome]
       IN  \E i \in DOMAIN rt :
              /\ RT_must_queue(rt[i], RouteHome, RouteK)
              /\ rt[i].replacement # <<>>
              /\ \E x \in RouteIds \ Range(rt[i].live) :
                    /\ rt[i].lo <= x /\ x < rt[i].hi /\ x \notin Range(rt[i].replacement)
(***************************************************************************)
(* The life of one Server (network.py): listen, save_state_regularly and   *)
(* stop called in any order, and the event loop running the timers that    *)
(* are due.  A handle of loop.call_later is [id, kind]; `timers` holds the *)
(* handles scheduled and not cancelled; refresh_loop and save_state_loop   *)
(* hold the id of a handle, 0 for None.                                    *)
(***************************************************************************)
Server_init ==
    [transport |-> "None", protocol |-> "None", refresh_loop |-> 0, save_state_loop |-> 0,
     timers |-> {}]

\* loop.call_later: a new handle, distinct from every handle still referenced
CallLater(sv, kind) ==
    LET used == {h.id : h \in sv.timers} \cup {sv.refresh_loop, sv.save_state_loop}
    IN  [id |-> CHOOSE i \in 1..(Cardinality(used) + 1) :
                    i \notin used /\ \A j \in 1..(i - 1) : j \in used,
         kind |-> kind]

\* handle.cancel()
Cancel(timers, id) == {h \in timers : h.id # id}

\* Server.stop
Server_stop(sv) ==
    LET closed == [sv EXCEPT !.transport = IF @ # "None" THEN "closed" ELSE @]
        calm == IF closed.refresh_loop # 0
                THEN [closed EXCEPT !.timers = Cancel(@, closed.refresh_loop)] ELSE closed
    IN  IF calm.save_state_loop # 0
        THEN [calm EXCEPT !.timers = Cancel(@, calm.save_state_loop)] ELSE calm

\* Server.refresh_table: starts _refresh_table and schedules itself again
Server_refresh_table(sv) ==
    LET h == CallLater(sv, "refresh")
    IN  [sv EXCEPT !.refresh_loop = h.id, !.timers = @ \cup {h}]

\* Server.listen
Server_listen(sv) ==
    Server_refresh_table([sv EXCEPT !.transport = "open", !.protocol = "KademliaProtocol"])

\* Server.save_state_regularly: save_state reads self.protocol.router, which
\* raises AttributeError before listen; otherwise it schedules itself again
Server_save_state_regularly(sv) ==
    IF sv.protocol = "None" THEN [sv |-> sv, raised |-> "AttributeError"]
    ELSE LET h == CallLater(sv, "save")
         IN  [sv |-> [sv EXCEPT !.save_state_loop = h.id, !.timers = @ \cup {h}],
              raised |-> NoErr]

\* history: the last call and the exception it raised, the number of calls of
\* save_state_regularly, whether stop has been called after listen, the kinds
\* of timer that fired after that, and the number of calls of stop
ServerInit ==
    /\ now = 0 /\ variant = "Server"
    /\ data = <<>> /\ arc = <<>> /\ lastSet = <<>>
    /\ router = <<>> /\ store = <<>> /\ calls = {} /\ op = <<>> /\ done = <<>>
    /\ lost = 0 /\ sets = <<>> /\ started = 0
    /\ quorum = <<>> /\ handled = <<>> /\ lookup = <<>> /\ refresh = <<>>
    /\ server = [sv |-> Server_init, call |-> "none", raised |-> NoErr, starts |-> 0,
                 stopped |-> FALSE, late |-> {}, stops |-> 0]

SrvFrame == UNCHANGED <<storageVars, netVars, quorum, handled, lookup, refresh>>

SrvListen ==
    /\ variant = "Server" /\ server.sv.transport = "None"
    /\ server' = [server EXCEPT !.sv = Server_listen(@), !.call = "listen", !.raised = NoErr]
    /\ SrvFrame

SrvSaveStateRegularly ==
    /\ variant = "Server" /\ server.starts < MaxStarts /\ ~server.stopped
    /\ LET r == Server_save_state_regularly(server.sv)
       IN  server' = [server EXCEPT !.sv = r.sv, !.call = "save_state_regularly",
                                    !.raised = r.raised, !.starts = @ + 1]
    /\ SrvFrame

SrvStop ==
    /\ variant = "Server"
    /\ server' = [server EXCEPT !.sv = Server_stop(@), !.call = "stop", !.raised = NoErr,
                                !.stopped = @ \/ server.sv.transport # "None",
                                !.stops = Min(@ + 1, 2)]
    /\ SrvFrame

\* the event loop runs a handle that is due: refresh_table or save_state_regularly
SrvTimerFires(h) ==
    /\ variant = "Server" /\ h \in server.sv.timers
    /\ LET due == [server.sv EXCEPT !.timers = @ \ {h}]
           sv == IF h.kind = "refresh" THEN Server_refresh_table(due)
                 ELSE Server_save_state_regularly(due).sv
       IN  server' = [server EXCEPT !.sv = sv, !.call = h.kind, !.raised = NoErr,
                                    !.late = IF server.stopped THEN @ \cup {h.kind} ELSE @]
    /\ SrvFrame

ServerNext ==
    \/ SrvListen
    \/ SrvSaveStateRegularly
    \/ SrvStop
    \/ \E h \in server.sv.timers : SrvTimerFires(h)

SpecServer == ServerInit /\ [][ServerNext]_vars

\* C28: stop() can be called any number of times, before or after listen(),
\* without raising, a second stop() changes nothing, and after the first
\* stop() that follows listen() neither the refresh timer nor the save-state
\* timer fires again.
C28_StopIsFinal ==
    variant = "Server" =>
        /\ server.call = "stop" => server.raised = NoErr
        /\ Server_stop(Server_stop(server.sv)) = Server_stop(server.sv)
        /\ server.late = {}
(***************************************************************************)
(* One refresh cycle (_refresh_table) of the node RefreshHome in a network *)
(* of listening nodes.  Every bucket has been touched within the hour, so  *)
(* get_refresh_ids is empty and the cycle goes straight to republishing;   *)
(* set_digest runs as in Server.set, one entry after the other.            *)
(***************************************************************************)
RefreshHome == NodeIdOf(1)
RefreshKeys == {Digest("ka"), Digest("kb")}

\* a ForgetfulStorage's data: distinct keys, in the order they were set
RefreshStores(t) ==
    {d \in UNION {[1..n -> [k : RefreshKeys, t : 0..t, v : {"v1"}]] : n \in 0..MaxStored} :
        /\ \A i, j \in DOMAIN d : i < j => d[i].k # d[j].k /\ d[i].t <= d[j].t}

RefreshInit ==
    /\ now = RepublishAge + 1 /\ variant = "Forgetful" /\ data = <<>> /\ arc = ARC_init(1)
    /\ lastSet = [k \in Keys |-> Never]
    /\ router \in {[n \in Nodes |-> RT_with(n, known[n])] :
                       known \in [Nodes -> SUBSET Nodes]}
    /\ \A n \in Nodes : n \notin RT_contacts(router[n])
    /\ \E d \in RefreshStores(now) :
          store = [n \in Nodes |-> IF n = RefreshHome THEN d ELSE <<>>]
    /\ calls = {} /\ op = Idle /\ done = NoDone /\ lost = 0 /\ started = 0
    /\ sets = [k \in AppKeys |-> NoSet]
    /\ quorum = <<>> /\ handled = <<>> /\ lookup = <<>> /\ server = <<>>
    /\ refresh = [state |-> "idle", begin |-> <<>>, known |-> {}, todo |-> <<>>,
                  ran |-> <<>>, sent |-> {}]

\* _refresh_table: the list of the entries older than one hour is taken
RefreshBegin ==
    /\ refresh.state = "idle"
    /\ refresh' = [refresh EXCEPT !.state = "running",
                                  !.begin = store[RefreshHome],
                                  !.known = RT_contacts(router[RefreshHome]),
                                  !.todo = FS_iter_older_than(store[RefreshHome], now, RepublishAge)]
    /\ UNCHANGED <<storageVars, netVars, quorum, handled, lookup, server>>

\* the loop of _refresh_table: set_digest of the next entry up to its await, or
\* the end of the cycle
RepublishNext ==
    /\ refresh.state = "running" /\ op.kind = "idle"
    /\ IF refresh.todo = <<>>
       THEN /\ refresh' = [refresh EXCEPT !.state = "finished"]
            /\ UNCHANGED <<op, calls>>
       ELSE LET dkey == Head(refresh.todo)[1]
                value == Head(refresh.todo)[2]
                nearest == RT_find_neighbors(router[RefreshHome], dkey, KSize, {})
                h == NH_push(NH_init(dkey, KSize), nearest)
                f == SpiderFind(h)
            IN  IF NoKnownNeighbors(nearest)
                THEN /\ refresh' = [refresh EXCEPT !.ran = Append(@, dkey), !.todo = Tail(@)]
                     /\ UNCHANGED <<op, calls>>
                ELSE /\ refresh' = [refresh EXCEPT !.ran = Append(@, dkey)]
                     /\ op' = OpRec(RefreshHome, "refresh", "find", "", dkey, value, h, {},
                                    f.frontier, <<>>, None)
                     /\ calls' = calls \cup SendCalls(RefreshHome, f.frontier, "find_node",
                                                      dkey, None, "op")
    /\ UNCHANGED <<router, store, done, lost, sets, started, storageVars,
                   quorum, handled, lookup, server>>

\* set_digest of the cycle: a round of FIND_NODE is gathered; max([]) raises
\* ValueError out of set_digest and out of _refresh_table
RefreshRoundDone ==
    /\ op.kind = "refresh" /\ op.phase = "find" /\ op.waiting = {}
    /\ LET h == MergeNodeResponses(op.heap, op.responses)
           f == SpiderFind(h)
           nodes == NH_iter(h)
       IN  IF ~f.fin
           THEN /\ op' = [op EXCEPT !.heap = h, !.waiting = f.frontier, !.responses = <<>>]
                /\ calls' = calls \cup SendCalls(op.node, f.frontier, "find_node", op.dkey, None, "op")
                /\ UNCHANGED <<store, refresh>>
           ELSE IF nodes = <<>>
           THEN /\ op' = Idle
                /\ refresh' = [refresh EXCEPT !.state = "raised"]
                /\ UNCHANGED <<calls, store>>
           ELSE /\ store' = [store EXCEPT ![op.node] =
                                IF StoresLocally(op.node, op.dkey, nodes)
                                THEN FS_setitem(@, op.dkey, op.value, now) ELSE @]
                /\ op' = [op EXCEPT !.phase = "store", !.heap = h, !.waiting = Range(nodes),
                                    !.responses = <<>>]
                /\ calls' = calls \cup SendCalls(op.node, Range(nodes), "store", op.dkey, op.value, "op")
                /\ refresh' = [refresh EXCEPT !.sent = @ \cup {<<to, op.dkey>> : to \in Range(nodes)}]
    /\ UNCHANGED <<router, done, lost, sets, started, storageVars, quorum, handled, lookup, server>>

\* set_digest of the cycle returns: the call_store results are gathered
RefreshStoreDone ==
    /\ op.kind = "refresh" /\ op.phase = "store" /\ op.waiting = {}
    /\ op' = Idle
    /\ refresh' = [refresh EXCEPT !.todo = Tail(@)]
    /\ UNCHANGED <<router, store, calls, done, lost, sets, started, storageVars,
                   quorum, handled, lookup, server>>

RefreshNext ==
    \/ RefreshBegin
    \/ RepublishNext
    \/ \E c \in calls : HandleRequest(c)
    \/ \E c \in calls : ReplyArrives(c)
    \/ \E c \in calls : Timeout(c)
    \/ RefreshRoundDone
    \/ RefreshStoreDone

SpecRefresh == RefreshInit /\ [][RefreshNext]_vars

\* the number of times set_digest ran for dkey in the cycle
TimesRan(dkey) == Cardinality({i \in DOMAIN refresh.ran : refresh.ran[i] = dkey})

\* C29: when a refresh cycle is over, set_digest has run exactly once for every
\* entry the node held at the start of the cycle with a birthday at least one
\* hour old and for no other key, and a STORE for each of these entries has
\* been sent to every neighbor the node knew.
C29_RepublishEveryOld ==
    refresh.state \in {"finished", "raised"} =>
        /\ \A i \in DOMAIN refresh.begin :
              TimesRan(refresh.begin[i].k) =
                  IF now - refresh.begin[i].t >= RepublishAge THEN 1 ELSE 0
        /\ \A i \in DOMAIN refresh.ran : refresh.ran[i] \in KeysOf(refresh.begin)
        /\ \A i \in DOMAIN refresh.begin, b \in refresh.known :
              now - refresh.begin[i].t >= RepublishAge =>
                  <<b, refresh.begin[i].k>> \in refresh.sent

\* C30: a call of adjust made less than 5 seconds after the last adjustment, or
\* after the construction, leaves the whole controller as it was (R, W, N, the
\* latency window, the failure counter and last_adjustment); the controller
\* changes only in a call made 5 seconds or more after the last change, which
\* becomes the new last_adjustment.
C30_GatedCallChangesNothing ==
    [][/\ now - quorum.dq.last_adjustment < QuorumGate => quorum'.dq = quorum.dq
       /\ quorum'.dq # quorum.dq =>
              /\ now - quorum.dq.last_adjustment >= QuorumGate
              /\ quorum'.dq.last_adjustment = now]_vars

\* a gated call, made one second too early after the second adjustment
C30_Witness ==
    /\ variant = "Quorum"
    /\ quorum.call = "gated"
    /\ Len(quorum.dq.response_times) = 2
    /\ now - quorum.dq.last_adjustment = QuorumGate - 1

(***************************************************************************)
(* The calls a node makes through call_store, call_find_node and           *)
(* call_find_value, checked under SpecNet at the step in which the call    *)
(* resolves at its caller.                                                 *)
(***************************************************************************)
\* the result of the call c as the caller's gather receives it
Received(c, result) ==
    c.bound = "op" =>
        /\ Len(op'.responses) = Len(op.responses) + 1
        /\ op'.responses[Len(op'.responses)] = [peer |-> c.to, result |-> result]

C32_LocalWriteRule ==
    [][LET h == MergeNodeResponses(op.heap, op.responses)
           nodes == NH_iter(h)
           home == op.node
       IN  (NodeRoundDone /\ op.kind = "set" /\ SpiderFind(h).fin /\ nodes # <<>>) =>
               /\ IF \E i \in DOMAIN nodes :
                         Distance(home, op.dkey) < Distance(nodes[i], op.dkey)
                  THEN store'[home] = FS_setitem(store[home], op.dkey, op.value, now)
                  ELSE store'[home] = store[home]
               /\ \A n \in Nodes \ {home} : store'[n] = store[n]
               /\ {c \in calls' \ calls : c.method = "store"} =
                      {Call(home, nodes[i], "store", op.dkey, op.value, "op") : i \in DOMAIN nodes}
               /\ op'.phase = "store" /\ op'.waiting = Range(nodes)
      ]_vars

\* set_digest has written locally and sent STORE to two nodes, of which the
\* nearer one is nearer to the key than the home node
C32_Witness ==
    /\ op.kind = "set" /\ op.phase = "store"
    /\ Has(store[op.node], op.dkey)
    /\ Len(NH_iter(op.heap)) = 2
    /\ Distance(NH_iter(op.heap)[1], op.dkey) < Distance(op.node, op.dkey)
    /\ \A i \in 1..2 : \E c \in calls : c.method = "store" /\ c.to = NH_iter(op.heap)[i]
                                        /\ c.from = op.node

(***************************************************************************)
(* ARCStorage: the adaptation of p, exceptions of set, and the four lists, *)
(* checked under SpecStorage by applying set and get to every state.       *)
(***************************************************************************)
\* C33: p stays within 0..capacity; a set whose key is in B1 raises p by
\* max(|B2| div |B1|, 1), capped at capacity, a set whose key is in B2
\* lowers p by max(|B1| div |B2|, 1), floored at 0, and in both cases the key
\* leaves the ghost list and enters T2; no other operation changes p.
C33_Adaptation ==
    variant = "ARC" =>
        /\ 0 <= arc.p /\ arc.p <= arc.capacity
        /\ \A k \in Keys, v \in Values :
              LET r == ARC_setitem(arc, k, v, now)
              IN  IF Has(arc.B1, k)
                  THEN /\ r.p = Min(arc.capacity,
                                    arc.p + Max(Len(arc.B2) \div Len(arc.B1), 1))
                       /\ ~Has(r.B1, k) /\ Has(r.T2, k)
                  ELSE IF Has(arc.B2, k)
                  THEN /\ r.p = Max(0, arc.p - Max(Len(arc.B1) \div Len(arc.B2), 1))
                       /\ ~Has(r.B2, k) /\ Has(r.T2, k)
                  ELSE r.p = arc.p
        /\ \A k \in Keys, d \in Defaults : ARC_get(arc, k, d).state.p = arc.p

\* C35: for an ARCStorage of any capacity >= 1 and after any sequence of set
\* and get, set does not raise: it pops from no empty list and divides by no
\* empty ghost list's size.
C35_SetNeverRaises ==
    variant = "ARC" =>
        \A k \in Keys, v \in Values : ARC_setitem(arc, k, v, now).err = NoErr

\* the keys of the list named n
ARC_keys(s, n) == KeysOf(CASE n = "T1" -> s.T1 [] n = "T2" -> s.T2
                           [] n = "B1" -> s.B1 [] OTHER -> s.B2)

\* C36: after any sequence of set and get no key is in more than one of T1,
\* T2, B1 and B2.
C36_ListsDisjoint ==
    variant = "ARC" =>
        \A m, n \in {"T1", "T2", "B1", "B2"} :
            m # n => ARC_keys(arc, m) \cap ARC_keys(arc, n) = {}

\* a key has come back from a ghost list into T2 while another key is a ghost
\* and a third is live in T1
C36_Witness ==
    /\ variant = "ARC"
    /\ \E i \in DOMAIN arc.T2 : arc.T2[i].v = None
    /\ arc.T1 # <<>>
    /\ arc.B1 # <<>> \/ arc.B2 # <<>>

(***************************************************************************)
(* NodeHeap, checked under SpecLookup on the heap of the lookup and on the *)
(* heap after one more push, remove or mark_contacted.                     *)
(***************************************************************************)
\* what iteration over the heap h yields, and have_contacted_all
HeapOK(h) ==
    LET top == NodeHeap_iter(h)
        dist(c) == Distance(c.id, h.node)
    IN  /\ Len(top) <= h.maxsize
        /\ \A i, j \in DOMAIN top : i < j => top[i].id # top[j].id /\ dist(top[i]) < dist(top[j])
        /\ Range(top) \subseteq h.heap
        /\ \A e, f \in h.heap : e.id = f.id => e = f
        /\ \A e \in h.heap \ Range(top) :
              Len(top) = h.maxsize /\ \A i \in DOMAIN top : dist(top[i]) < dist(e)
        /\ NodeHeap_have_contacted_all(h) <=> \A i \in DOMAIN top : top[i].id \in h.contacted

\* C34: after any sequence of push, remove and mark_contacted, iteration
\* yields at most maxsize contacts with distinct IDs, in strictly increasing
\* XOR distance to the target, and they are the closest contacts in the heap;
\* have_contacted_all is true exactly when the ID of every contact yielded
\* is in the contacted set.
C34_HeapIteration ==
    variant = "Lookup" =>
        /\ HeapOK(lookup.heap)
        /\ \A nodes \in ContactLists : HeapOK(NodeHeap_push(lookup.heap, nodes))
        /\ \A peers \in SUBSET Nodes : HeapOK(NodeHeap_remove(lookup.heap, peers))
        /\ \A c \in Contacts : HeapOK(NodeHeap_mark_contacted(lookup.heap, c))

\* after pushes and a remove the heap holds more than maxsize contacts, the
\* nearest one contacted and another of the top not
C34_Witness ==
    /\ variant = "Lookup"
    /\ Cardinality(lookup.heap.heap) > lookup.heap.maxsize
    /\ \E i \in DOMAIN lookup.got : ~lookup.got[i].ok
    /\ NodeHeap_iter(lookup.heap)[1].id \in lookup.heap.contacted
    /\ ~NodeHeap_have_contacted_all(lookup.heap)

(***************************************************************************)
(* The outcome of set_digest, checked under SpecNet on every Server.set    *)
(* that passed its type check.                                             *)
(***************************************************************************)
\* C37: set_digest completes with a boolean and raises nothing, also when
\* the routing table held neighbors at the start and the node lookup ends
\* with no node because every contact asked failed to respond.
C37_SetDigestNeverRaises ==
    done.kind = "set" /\ done.raised # "TypeError" =>
        /\ done.raised = NoErr
        /\ done.ok \in BOOLEAN
====
